---------------------------- MODULE Spec2Model ----------------------------
(***************************************************************************)
(* RomWBW HBIOS emulator: the signal/registration state machine and trap   *)
(* detection of HBIOSDispatch (hbios_dispatch.cc), the trap check of the   *)
(* CLI front end (romwbw_emu.cc), the banked memory (romwbw_mem.h), the   *)
(* disk I/O service class (HBIOSDispatch::handleDIO), the slice query     *)
(* EXTSLICE (handleEXT), the bank calls SYSSETBNK, SYSSETCPY, SYSBNKCPY,  *)
(* the heap call SYSALLOC and the boot call SYSBOOT (handleSYS,            *)
(* bootFromDevice), the console reads CIOIN and VDAKRD (handleCIO,         *)
(* handleVDA), the synthetic return doRet, and the default cases of the    *)
(* service classes.                                                        *)
(*                                                                         *)
(* Numbers are written in decimal; the hexadecimal value of the source is  *)
(* given in the comment next to each.                                      *)
(***************************************************************************)
EXTENDS Integers, Sequences, FiniteSets, TLC

VARIABLES
  \* ---- HBIOSDispatch: trapping and signal port (hbios_dispatch.h:401-418)
  trapping_enabled,   \* bool
  main_entry,         \* uint16_t
  dispatch,           \* <<cio,dio,rtc,sys,vda,snd>>_dispatch, index 0..5
  signal_state,       \* uint8_t
  signal_addr,        \* uint16_t
  \* ---- CLI front end (romwbw_emu.cc:931-937)
  hbios_trapping_enabled,
  cli_dispatch_addr,  \* cio/dio/rtc/sys_dispatch_addr, index 0..3
  \* ---- observers of the signal byte stream (not program state)
  nsignals,           \* bytes sent to the signal port so far
  reg_left,           \* bytes the protocol still declares for the open sequence
  ff_idle             \* a 0xFF byte arrived in the idle state since the reset

VARIABLES
  \* ---- banked_mem (romwbw_mem.h:38-56, 335)
  rom,                \* uint8_t* rom : tracked physical index -> byte
  ram,                \* uint8_t* ram : tracked physical index -> byte
  shadow_bitmap,      \* the addresses whose shadow bit is set
  current_bank,       \* uint8_t
  \* ---- observers of the memory operations (not program state)
  nops,               \* operations performed so far
  rom_stored,         \* addresses stored to while a ROM bank was selected
  last_op             \* the last memory operation and its arguments

VARIABLES
  \* ---- guest CPU registers the service calls read and write (cpu->regs)
  regs,               \* [A, Z, CY, B, C, D, E, HL]; Z and CY are the flag bits
  \* ---- HBIOSDispatch: disks and heap (hbios_dispatch.h:430, 458, 461)
  md_disks,           \* MemDiskState md_disks[2], index 0..1
  disks,              \* HBDisk disks[16], index 0..15
  heap_ptr,           \* uint16_t
  \* ---- observers of the service calls (not program state)
  ndio,               \* service calls and disk operations performed so far
  last_call,          \* the last service call: its B, C, D, E, HL and flags on entry
  rt_pc,              \* position in the seek/write/seek/read sequence
  rt_data,            \* the bytes DIOWRITE was given
  ext_seen,           \* disk slots EXTSLICE was called on since their image was loaded
  ever_initialized,   \* RAM banks (low nibble) SYSSETBNK was called on since the ROM was loaded
  since_reset         \* RAM banks (low nibble) SYSSETBNK was called on since the last reset

VARIABLES
  \* ---- HBIOSDispatch: bank state of the SYS calls (hbios_dispatch.h:421-434)
  cur_bank,               \* uint8_t
  bnkcpy_src_bank,        \* uint8_t
  bnkcpy_dst_bank,        \* uint8_t
  bnkcpy_count,           \* uint16_t
  initialized_ram_banks   \* uint16_t bitmap, as the set of its bit numbers

VARIABLES
  \* ---- guest CPU: program counter and stack pointer (cpu->regs.PC, SP)
  PC,                 \* uint16_t
  SP,                 \* uint16_t
  \* ---- HBIOSDispatch: console and dispatch mode (hbios_dispatch.h:403-405)
  waiting_for_input,  \* bool
  skip_ret,           \* bool
  blocking_allowed,   \* bool
  \* ---- host: the console input not yet read, and the emulator process
  con_in,             \* sequence of characters emu_console_read_char will yield
  polling,            \* the CPU thread is inside the sleep loop of CIOIN
  halted              \* emu_fatal or exit has ended the process

sigVars == <<trapping_enabled, main_entry, dispatch, signal_state, signal_addr,
             hbios_trapping_enabled, cli_dispatch_addr,
             nsignals, reg_left, ff_idle>>

memVars == <<rom, ram, shadow_bitmap, current_bank, nops, rom_stored, last_op>>

sysVars == <<cur_bank, bnkcpy_src_bank, bnkcpy_dst_bank, bnkcpy_count,
             initialized_ram_banks>>

obsVars == <<ext_seen, ever_initialized, since_reset>>

conVars == <<PC, SP, waiting_for_input, skip_ret, blocking_allowed, con_in,
             polling, halted>>

dioVars == <<regs, md_disks, disks, heap_ptr, ndio, last_call, rt_pc, rt_data,
             sysVars, obsVars, conVars>>

vars == <<sigVars, memVars, dioVars>>

-----------------------------------------------------------------------------
(* Bounds of the model *)

\* Longest signal byte stream explored (a sequential registration is 1 + 8).
MaxSignals == 9

\* Longest run of memory operations explored.
MaxMemOps == 5

\* Longest run of service calls and disk operations explored.
MaxDioOps == 2

\* Longest run of disk calls explored on a loaded hard disk image.
MaxDiskOps == 3

\* Bank calls, guest stores and resets of one run of the bank specification.
MaxSysOps == 4

-----------------------------------------------------------------------------
(* Bit arithmetic on naturals, as the C operators compute it *)

RECURSIVE BitAnd(_, _)
BitAnd(a, b) ==
  IF a = 0 \/ b = 0 THEN 0
  ELSE (IF a % 2 = 1 /\ b % 2 = 1 THEN 1 ELSE 0) + 2 * BitAnd(a \div 2, b \div 2)

RECURSIVE BitOr(_, _)
BitOr(a, b) ==
  IF a = 0 THEN b
  ELSE IF b = 0 THEN a
  ELSE (IF a % 2 = 1 \/ b % 2 = 1 THEN 1 ELSE 0) + 2 * BitOr(a \div 2, b \div 2)

U8(x)  == x % 256
U16(x) == x % 65536

-----------------------------------------------------------------------------
(* Signal port: the byte values the guest sends, and the PCs looked at *)

\* 0x00 (unknown command, zero address byte), 0x02 (sequential registration),
\* 0x14 (prefixed registration of VDA), 0xFF (init complete).
SignalBytes == {0, 2, 20, 255}

\* Every address two signal bytes can form, the main entry 0xFFF0, the
\* bank-call address 0xFFF9 and an address nothing registers (0x1234).
TrapPCs == {lo + 256 * hi : lo \in SignalBytes, hi \in SignalBytes}
             \cup {65520, 65529, 4660}

BANKCALL_ADDR == 65529   \* 0xFFF9

-----------------------------------------------------------------------------
(* HBIOSDispatch::reset and HBIOSDispatch::handleSignalPort *)

\* The dispatcher fields the signal port reads and writes, as one record.
SigState == [trapping_enabled |-> trapping_enabled, dispatch |-> dispatch,
             signal_state |-> signal_state, signal_addr |-> signal_addr]

\* signal_state == 0: the byte is a command.
SignalIdle(s, value) ==
  CASE value = 1   -> s                                   \* 0x01 log only
    [] value = 2   -> [s EXCEPT !.signal_state = 1, !.signal_addr = 0]
    [] value = 254 -> s                                   \* 0xFE log only
    [] value = 255 -> [s EXCEPT !.trapping_enabled = TRUE]
    [] value \in 16..21 ->                                \* 0x10..0x15
         [s EXCEPT !.signal_state = BitOr(128, value - 16), !.signal_addr = 0]
    [] OTHER -> s                                         \* unknown, log only

\* Protocol 3, signal_state & 0x80: low byte while signal_addr == 0, else high.
SignalPrefixed(s, value) ==
  LET handler_idx == BitAnd(s.signal_state, 15)
      addr == BitOr(s.signal_addr, U16(value * 256))
  IN  IF s.signal_addr = 0
      THEN [s EXCEPT !.signal_addr = value]
      ELSE [s EXCEPT !.dispatch =
                        IF handler_idx \in 0..5
                        THEN [@ EXCEPT ![handler_idx] = addr] ELSE @,
                     !.signal_state = 0, !.signal_addr = 0]

\* Protocol 2, signal_state 1..8: odd states take a low byte, even a high byte.
SignalSequential(s, value) ==
  LET is_low == (s.signal_state % 2 = 1)
      handler_idx == (s.signal_state - 1) \div 2
      addr == BitOr(s.signal_addr, U16(value * 256))
  IN  IF is_low
      THEN [s EXCEPT !.signal_addr = value, !.signal_state = @ + 1]
      ELSE [s EXCEPT !.dispatch = [@ EXCEPT ![handler_idx] = addr],
                     !.signal_addr = 0,
                     !.signal_state = IF @ < 8 THEN @ + 1 ELSE 0]

\* Mutant of handleSignalPort: 0xFF enables trapping in whatever state.
handleSignalPort_ffAnyState(s, value) ==
  IF value = 255 THEN [s EXCEPT !.trapping_enabled = TRUE]
  ELSE IF s.signal_state = 0 THEN SignalIdle(s, value)
  ELSE IF BitAnd(s.signal_state, 128) # 0 THEN SignalPrefixed(s, value)
  ELSE IF s.signal_state >= 1 /\ s.signal_state <= 8 THEN SignalSequential(s, value)
  ELSE s

handleSignalPort(s, value) ==
  IF s.signal_state = 0 THEN SignalIdle(s, value)
  ELSE IF BitAnd(s.signal_state, 128) # 0 THEN SignalPrefixed(s, value)
  ELSE IF s.signal_state >= 1 /\ s.signal_state <= 8 THEN SignalSequential(s, value)
  ELSE s

\* The CLI front end has no registration protocol: every byte is a command.
handle_emu_signal(enabled, value) ==
  IF value = 255 THEN TRUE ELSE enabled

\* Bytes the protocol declares after a command byte (8 after 0x02, 2 after
\* 0x10..0x15); used only by the observer reg_left.
DeclaredBytes(value) ==
  IF value = 2 THEN 8 ELSE IF value \in 16..21 THEN 2 ELSE 0

-----------------------------------------------------------------------------
(* Trap detection *)

checkTrap(pc) ==
  IF ~trapping_enabled THEN FALSE
  ELSE IF pc = main_entry THEN TRUE
  ELSE IF pc = BANKCALL_ADDR THEN TRUE
  ELSE \E h \in 0..5 : pc = dispatch[h] /\ dispatch[h] # 0

getTrapType(pc) ==
  IF pc = main_entry THEN -2
  ELSE IF pc = BANKCALL_ADDR THEN -3
  ELSE IF \E h \in 0..5 : pc = dispatch[h] /\ dispatch[h] # 0
  THEN CHOOSE h \in 0..5 : /\ pc = dispatch[h] /\ dispatch[h] # 0
                           /\ \A g \in 0..5 : g < h => pc # dispatch[g]
  ELSE -1

check_hbios_trap(pc) ==
  IF ~hbios_trapping_enabled THEN FALSE
  ELSE IF pc = 65520 THEN TRUE                             \* 0xFFF0
  ELSE \E h \in 0..3 : cli_dispatch_addr[h] # 0 /\ pc = cli_dispatch_addr[h]

-----------------------------------------------------------------------------
(* banked_mem: 16 ROM banks and 16 RAM banks of 32 KiB (romwbw_mem.h) *)

ROM_SIZE      == 524288   \* 512 * 1024
RAM_SIZE      == 524288   \* 512 * 1024
BANK_SIZE     == 32768    \* 32 * 1024
BANK_BOUNDARY == 32768    \* 0x8000
COMMON_BANK   == 143      \* 0x8F

\* The memory as one record, so that operations compose.
\* stray is what the build yields for a read outside the rom array; the
\* actions whose inputs can cause such a read draw it.
Mem == [rom |-> rom, ram |-> ram, shadow_bitmap |-> shadow_bitmap,
        current_bank |-> current_bank, stray |-> 255]

\* ram[phys] and rom[phys] on the physical indices the model tracks; an
\* untracked RAM cell reads 0 and an untracked ROM cell 0xFF (the erased
\* state), and a write to an untracked cell is not recorded.
RamAt(m, phys) == IF phys \in DOMAIN m.ram THEN m.ram[phys] ELSE 0
RomAt(m, phys) == IF phys \in DOMAIN m.rom THEN m.rom[phys] ELSE 255
RamPut(m, phys, byte) ==
  IF phys \in DOMAIN m.ram THEN [m EXCEPT !.ram[phys] = byte] ELSE m

IsRamId(bank_id) == (bank_id \div 128) % 2 = 1           \* bank_id & 0x80

select_bank(m, bank_id) == [m EXCEPT !.current_bank = bank_id]

get_shadow_bit(m, addr) == addr \in m.shadow_bitmap
set_shadow_bit(m, addr) == [m EXCEPT !.shadow_bitmap = @ \cup {addr}]

\* Mutant of fetch_banked: the shadow bit is not consulted.
fetch_banked_noshadow(m, addr) ==
  IF IsRamId(m.current_bank)
  THEN RamAt(m, (m.current_bank % 16) * BANK_SIZE + addr)
  ELSE RomAt(m, (m.current_bank % 16) * BANK_SIZE + addr)

fetch_banked(m, addr) ==
  IF IsRamId(m.current_bank)
  THEN RamAt(m, (m.current_bank % 16) * BANK_SIZE + addr)
  ELSE IF get_shadow_bit(m, addr)
       THEN RamAt(m, 0 * BANK_SIZE + addr)
       ELSE RomAt(m, (m.current_bank % 16) * BANK_SIZE + addr)

\* Mutant of store_banked: every store lands in RAM bank 0, as under a ROM bank.
store_banked_bank0(m, addr, byte) ==
  set_shadow_bit(RamPut(m, 0 * BANK_SIZE + addr, byte), addr)

store_banked(m, addr, byte) ==
  IF IsRamId(m.current_bank)
  THEN RamPut(m, (m.current_bank % 16) * BANK_SIZE + addr, byte)
  ELSE set_shadow_bit(RamPut(m, 0 * BANK_SIZE + addr, byte), addr)

\* Mutant of InIdentAddr: the first range is one byte too long (0xFE03).
InIdentAddr_wide(addr) ==
  \/ (addr >= 65024 /\ addr < 65028)
  \/ (addr >= 65280 /\ addr < 65283)
  \/ (addr >= 65532 /\ addr <= 65533)

\* The three write-protected ranges of the common area, as CPU addresses:
\* 0xFE00..0xFE02, 0xFF00..0xFF02, 0xFFFC..0xFFFD.
InIdentAddr(addr) ==
  \/ (addr >= 65024 /\ addr < 65027)
  \/ (addr >= 65280 /\ addr < 65283)
  \/ (addr >= 65532 /\ addr <= 65533)

fetch_mem(m, addr) ==
  IF addr < BANK_BOUNDARY
  THEN fetch_banked(m, addr)
  ELSE RamAt(m, (COMMON_BANK % 16) * BANK_SIZE + (addr - BANK_BOUNDARY))

store_mem(m, addr, byte) ==
  IF addr < BANK_BOUNDARY
  THEN store_banked(m, addr, byte)
  ELSE IF InIdentAddr(addr)
       THEN m
       ELSE RamPut(m, (COMMON_BANK % 16) * BANK_SIZE + (addr - BANK_BOUNDARY), byte)

\* The index read_bank forms, into ram for an id with bit 7 set and into
\* rom otherwise, and the size of that array.
bank_index(bank_id, offset) ==
  IF IsRamId(bank_id) THEN (bank_id % 16) * BANK_SIZE + offset
  ELSE bank_id * BANK_SIZE + offset

bank_array_size(bank_id) == IF IsRamId(bank_id) THEN RAM_SIZE ELSE ROM_SIZE

\* Direct bank access; offset >= BANK_SIZE reads 0xFF and writes nothing.
\* A ROM id above 0x0F indexes beyond the 512 KiB of rom.
read_bank(m, bank_id, offset) ==
  IF offset >= BANK_SIZE THEN 255
  ELSE IF IsRamId(bank_id)
       THEN RamAt(m, bank_index(bank_id, offset))
       ELSE IF bank_index(bank_id, offset) >= ROM_SIZE THEN m.stray
       ELSE RomAt(m, bank_index(bank_id, offset))

\* Physical ranges write_bank refuses: the DEVMAP workaround 0x78678..0x7867B
\* and the ident ranges 0x7FE00..0x7FE02, 0x7FF00..0x7FF02, 0x7FFFC..0x7FFFD.
WriteBankProtected(phys) ==
  \/ (phys >= 493176 /\ phys < 493180)
  \/ (phys >= 523776 /\ phys < 523779)
  \/ (phys >= 524032 /\ phys < 524035)
  \/ (phys >= 524284 /\ phys <= 524285)

write_bank(m, bank_id, offset, value) ==
  IF offset >= BANK_SIZE THEN m
  ELSE IF IsRamId(bank_id)
       THEN LET phys == (bank_id % 16) * BANK_SIZE + offset
            IN  IF WriteBankProtected(phys) THEN m ELSE RamPut(m, phys, value)
       ELSE m

-----------------------------------------------------------------------------
(* HBIOSDispatch: result codes, function codes, and the machine as a record *)

HBR_SUCCESS   == 0
HBR_NOUNIT    == 252      \* (uint8_t)-4
HBR_NOMEM     == 251      \* (uint8_t)-5
HBR_READONLY  == 246      \* (uint8_t)-10
HBR_FAILED    == 255      \* 0xFF
HBR_NOFUNC    == 253      \* (uint8_t)-3
HBR_NOHW      == 248      \* (uint8_t)-8

HBF_CIOIN     == 0        \* 0x00
HBF_CIOIST    == 2        \* 0x02
HBF_RTCSETTIM == 33       \* 0x21
HBF_VDAKST    == 76       \* 0x4C
HBF_VDAKRD    == 78       \* 0x4E
HBF_SNDQUERY  == 85       \* 0x55
HBF_DIOSTATUS == 16       \* 0x10
HBF_DIORESET  == 17       \* 0x11
HBF_DIOSEEK   == 18       \* 0x12
HBF_DIOREAD   == 19       \* 0x13
HBF_DIOWRITE  == 20       \* 0x14
HBF_DIOMEDIA  == 24       \* 0x18
HBF_DIOCAP    == 26       \* 0x1A
HBF_EXTSLICE  == 224      \* 0xE0
HBF_SYSSETBNK == 242      \* 0xF2
HBF_SYSSETCPY == 244      \* 0xF4
HBF_SYSBNKCPY == 245      \* 0xF5
HBF_SYSALLOC  == 246      \* 0xF6
HBF_SYSPEEK   == 250      \* 0xFA
HBF_SYSPOKE   == 251      \* 0xFB
HBF_SYSBOOT   == 254      \* 0xFE

\* enum HBiosMediaId
MID_MDROM     == 1
MID_MDRAM     == 2
MID_HD        == 4
MID_HDNEW     == 10

heap_end == 32768         \* 0x8000

\* The bytes of a 512-byte sector the model follows: the first and the last.
SectorBytes == <<0, 511>>

ZeroSector == [i \in 1..Len(SectorBytes) |-> 0]

\* Everything a service call reads and writes, as one record, so that calls
\* compose.  sector_buf is the stack array of the file-backed DIOREAD: it
\* holds whatever the stack held when the call is entered.  cmd_str is the
\* command SYSBOOT reads at HL, up to its terminator, as a sequence of
\* one-character strings.
Machine == [regs |-> regs, md_disks |-> md_disks, disks |-> disks,
            heap_ptr |-> heap_ptr, mem |-> Mem,
            cur_bank |-> cur_bank,
            bnkcpy_src_bank |-> bnkcpy_src_bank,
            bnkcpy_dst_bank |-> bnkcpy_dst_bank,
            bnkcpy_count |-> bnkcpy_count,
            initialized_ram_banks |-> initialized_ram_banks,
            sector_buf |-> ZeroSector,
            pc |-> PC, sp |-> SP,
            waiting_for_input |-> waiting_for_input,
            skip_ret |-> skip_ret,
            blocking_allowed |-> blocking_allowed,
            con_in |-> con_in,
            polling |-> polling,
            halted |-> halted,
            cmd_str |-> <<>>]

\* MemDiskState::total_sectors
total_sectors(md) == md.num_banks * 64

\* setResult: A and the Z flag; no other flag is touched.
setResult(d, result) ==
  [d EXCEPT !.regs.A = result, !.regs.Z = (result = 0)]

\* doRet: nothing under port dispatch (the guest's own RET follows the OUT);
\* otherwise the return address is popped into PC.  A process that has
\* aborted does not come here.
doRet(d) ==
  CHOOSE r \in {IF x.skip_ret \/ x.halted THEN x
                ELSE LET lo == fetch_mem(x.mem, x.sp)
                         hi == fetch_mem(x.mem, U16(x.sp + 1))
                     IN  [x EXCEPT !.sp = U16(x.sp + 2), !.pc = lo + hi * 256]
                : x \in {d}} : TRUE

\* emu_fatal: the message is printed and abort() ends the process; nothing
\* after the call runs.
emu_fatal(d) == [d EXCEPT !.halted = TRUE]

\* The result epilogue of the CLI front end's handle_hbios_call: A, Z and C.
cli_set_result(r, result) ==
  [r EXCEPT !.A = result, !.Z = (result = 0), !.CY = ((result \div 128) % 2 = 1)]

-----------------------------------------------------------------------------
(* Unit routing: map_md_unit, map_hd_unit, is_md_unit *)

\* Mutant of map_md_unit: the aliases 0xC0..0xCF name memory disk 0.
map_md_unit_c0ram(unit) ==
  IF unit < 2 THEN unit
  ELSE IF unit >= 128 /\ unit <= 143
       THEN (IF unit % 16 < 2 THEN unit % 16 ELSE 1)
  ELSE IF unit >= 192 /\ unit <= 207 THEN 0
  ELSE 255

map_md_unit(unit) ==
  IF unit < 2 THEN unit
  ELSE IF unit >= 128 /\ unit <= 143                       \* 0x80..0x8F
       THEN (IF unit % 16 < 2 THEN unit % 16 ELSE 1)
  ELSE IF unit >= 192 /\ unit <= 207 THEN 1                \* 0xC0..0xCF
  ELSE 255

\* Mutant of map_hd_unit: units 0x90..0x9F map to the slot after theirs.
map_hd_unit_next(unit) ==
  IF unit < 2 THEN 255
  ELSE IF unit >= 2 /\ unit < 18 THEN unit - 2
  ELSE IF unit >= 144 /\ unit <= 159 THEN (unit + 1) % 16
  ELSE 255

\* Mutant of map_hd_unit: units 2..17 are not rebased to slot 0.
map_hd_unit_norebase(unit) ==
  IF unit < 2 THEN 255
  ELSE IF unit >= 2 /\ unit < 18 THEN unit
  ELSE IF unit >= 144 /\ unit <= 159 THEN unit % 16
  ELSE 255

map_hd_unit(unit) ==
  IF unit < 2 THEN 255
  ELSE IF unit >= 2 /\ unit < 18 THEN unit - 2
  ELSE IF unit >= 144 /\ unit <= 159 THEN unit % 16        \* 0x90..0x9F
  ELSE 255

is_md_unit(unit, mds) ==
  LET md_idx == map_md_unit(unit)
  IN  md_idx # 255 /\ mds[md_idx].is_enabled

\* disks[] holds the slots the model loads images into; every other slot
\* of the sixteen stays closed, as constructed.
\* The test handleDIO and handleEXT make after is_md_unit fails.
is_hd_unit(unit, dks) ==
  LET hd_unit == map_hd_unit(unit)
  IN  hd_unit # 255 /\ hd_unit < 16 /\ hd_unit \in DOMAIN dks /\ dks[hd_unit].is_open

-----------------------------------------------------------------------------
(* HBIOSDispatch::handleDIO: STATUS, RESET, SEEK, READ, WRITE *)

\* The lambdas of DIOREAD and DIOWRITE: D & 0x80 addresses a bank directly
\* (the common bank above 0x8000), otherwise the CPU's view is used.
write_to_bank(m, buffer_bank, addr, byte) ==
  IF IsRamId(buffer_bank)
  THEN IF addr >= 32768 THEN write_bank(m, 143, addr - 32768, byte)
       ELSE write_bank(m, buffer_bank, addr, byte)
  ELSE store_mem(m, addr, byte)

read_from_bank(m, buffer_bank, addr) ==
  IF IsRamId(buffer_bank)
  THEN IF addr >= 32768 THEN read_bank(m, 143, addr - 32768)
       ELSE read_bank(m, buffer_bank, addr)
  ELSE fetch_mem(m, addr)

\* One sector from a bank to the guest buffer, byte after byte.
RECURSIVE MdReadSector(_, _, _, _, _, _)
MdReadSector(m, src_bank, src_offset, buffer_bank, base, i) ==
  IF i > Len(SectorBytes) THEN m
  ELSE LET j == SectorBytes[i]
           byte == read_bank(m, src_bank, src_offset + j)
       IN  MdReadSector(write_to_bank(m, buffer_bank, U16(base + j), byte),
                        src_bank, src_offset, buffer_bank, base, i + 1)

\* One sector from the guest buffer to a bank, byte after byte.
RECURSIVE MdWriteSector(_, _, _, _, _, _)
MdWriteSector(m, dst_bank, dst_offset, buffer_bank, base, i) ==
  IF i > Len(SectorBytes) THEN m
  ELSE LET j == SectorBytes[i]
           byte == read_from_bank(m, buffer_bank, U16(base + j))
       IN  MdWriteSector(write_bank(m, dst_bank, dst_offset + j, byte),
                         dst_bank, dst_offset, buffer_bank, base, i + 1)

\* Mutant of MdLoop: the position does not advance from sector to sector.
RECURSIVE MdLoop_stuck(_, _, _, _, _, _, _)
MdLoop_stuck(d, write, md_unit, buffer, buffer_bank, count, s) ==
  LET md == d.md_disks[md_unit] IN
  IF s >= count \/ md.current_lba >= total_sectors(md)
  THEN [d |-> d, blocks |-> s]
  ELSE LET bank_offset == md.current_lba \div 64
           sector_in_bank == md.current_lba % 64
           bank == U8(md.start_bank + bank_offset)
           offset == sector_in_bank * 512
           m2 == IF write
                 THEN MdWriteSector(d.mem, bank, offset, buffer_bank, buffer + s * 512, 1)
                 ELSE MdReadSector(d.mem, bank, offset, buffer_bank, buffer + s * 512, 1)
       IN  MdLoop_stuck([d EXCEPT !.mem = m2],
                        write, md_unit, buffer, buffer_bank, count, s + 1)

\* The sector loop of a memory disk transfer; write = TRUE for DIOWRITE.  It
\* stops at count or at the end of the disk and yields the machine and the
\* number of blocks moved.
RECURSIVE MdLoop(_, _, _, _, _, _, _)
MdLoop(d, write, md_unit, buffer, buffer_bank, count, s) ==
  LET md == d.md_disks[md_unit] IN
  IF s >= count \/ md.current_lba >= total_sectors(md)
  THEN [d |-> d, blocks |-> s]
  ELSE LET bank_offset == md.current_lba \div 64
           sector_in_bank == md.current_lba % 64
           bank == U8(md.start_bank + bank_offset)
           offset == sector_in_bank * 512
           m2 == IF write
                 THEN MdWriteSector(d.mem, bank, offset, buffer_bank, buffer + s * 512, 1)
                 ELSE MdReadSector(d.mem, bank, offset, buffer_bank, buffer + s * 512, 1)
       IN  MdLoop([d EXCEPT !.mem = m2,
                            !.md_disks[md_unit].current_lba = @ + 1],
                  write, md_unit, buffer, buffer_bank, count, s + 1)

\* The 32-bit quantities (LBAs, slice offsets) stay below 2^31 for every
\* input drawn here, so their arithmetic is written without a modulus.

\* A hard disk image, in memory (the vector data) or in a file (the handle):
\* its length in bytes is nsec * 512 + tail with tail < 512, and data holds
\* the followed bytes of the sectors the model follows (HdSectors); any other
\* sector is not recorded.  mbr_written notes a guest write to sector 0.
\* Every LBA drawn is below 2^22, so (lba + s) * 512 fits size_t in every
\* build.
HdSectors == {0, 1, 127, 128, 129}

HdSector(dk, k) == IF k \in DOMAIN dk.data THEN dk.data[k] ELSE ZeroSector

RECURSIVE HdReadSector(_, _, _, _, _)
HdReadSector(m, sector, buffer_bank, base, i) ==
  IF i > Len(SectorBytes) THEN m
  ELSE HdReadSector(write_to_bank(m, buffer_bank, U16(base + SectorBytes[i]), sector[i]),
                    sector, buffer_bank, base, i + 1)

\* emu_disk_read(handle, k * 512, sector_buf, 512): fseek and fread.  It yields
\* the number of bytes read and the buffer, which keeps what it held beyond
\* the bytes read.
emu_disk_read(dk, k, sector_buf) ==
  LET read == IF k < dk.nsec THEN 512 ELSE IF k = dk.nsec THEN dk.tail ELSE 0
  IN  [read |-> read,
       buf |-> [i \in 1..Len(SectorBytes) |->
                  IF SectorBytes[i] < read THEN HdSector(dk, k)[i] ELSE sector_buf[i]]]

\* The read loop of a hard disk: a file-backed disk stops at the first read
\* of zero bytes, an in-memory disk at the first sector not wholly inside
\* the vector.
RECURSIVE HdReadLoop(_, _, _, _, _, _)
HdReadLoop(d, hd_unit, buffer, buffer_bank, count, s) ==
  LET dk == d.disks[hd_unit]
      lba == dk.current_lba
      done == [d |-> [d EXCEPT !.disks[hd_unit].current_lba = @ + s], blocks |-> s]
  IN  IF s >= count THEN done
      ELSE IF dk.file_backed
      THEN LET r == emu_disk_read(dk, lba + s, d.sector_buf)
           IN  IF r.read = 0 THEN done
               ELSE HdReadLoop([d EXCEPT !.mem = HdReadSector(d.mem, r.buf, buffer_bank,
                                                              buffer + s * 512, 1),
                                         !.sector_buf = r.buf],
                               hd_unit, buffer, buffer_bank, count, s + 1)
      ELSE IF (lba + s) * 512 + 512 > dk.nsec * 512 + dk.tail THEN done
      ELSE HdReadLoop([d EXCEPT !.mem = HdReadSector(d.mem, HdSector(dk, lba + s),
                                                     buffer_bank, buffer + s * 512, 1)],
                      hd_unit, buffer, buffer_bank, count, s + 1)

\* Sector k of the image takes the bytes of sector; the image grows to the
\* end of that sector if it ended before.
PutSector(dk, k, sector) ==
  [dk EXCEPT !.nsec = IF k + 1 > @ THEN k + 1 ELSE @,
             !.tail = IF k + 1 > dk.nsec THEN 0 ELSE @,
             !.data = IF k \in DOMAIN @ THEN [@ EXCEPT ![k] = sector] ELSE @,
             !.mbr_written = (@ \/ k = 0)]

\* emu_disk_write(handle, k * 512, sector_buf, 512): fseek and fwrite.  It
\* yields the number of bytes written and the file; fwrite on a stream opened
\* "rb" writes nothing.
emu_disk_write(dk, k, sector) ==
  IF dk.rw THEN [written |-> 512, dk |-> PutSector(dk, k, sector)]
  ELSE [written |-> 0, dk |-> dk]

\* The write loop never stops early.  A file-backed disk calls emu_disk_write
\* and does not look at what it returns; an in-memory disk grows its vector
\* with data.resize() to the end of the sector written.
RECURSIVE HdWriteLoop(_, _, _, _, _, _)
HdWriteLoop(d, hd_unit, buffer, buffer_bank, count, s) ==
  LET dk == d.disks[hd_unit]
      lba == dk.current_lba
  IN  IF s >= count
      THEN [d |-> [d EXCEPT !.disks[hd_unit].current_lba = @ + s], blocks |-> s]
      ELSE LET sector == [i \in 1..Len(SectorBytes) |->
                            read_from_bank(d.mem, buffer_bank,
                                           U16(buffer + s * 512 + SectorBytes[i]))]
               k == lba + s
           IN  HdWriteLoop([d EXCEPT !.disks[hd_unit] =
                                        IF dk.file_backed THEN emu_disk_write(@, k, sector).dk
                                        ELSE PutSector(@, k, sector)],
                           hd_unit, buffer, buffer_bank, count, s + 1)

\* Neither branch of a hard disk transfer applies: the slot has no file
\* handle and its vector is empty.
HdNoData(dk) == ~dk.file_backed /\ dk.nsec * 512 + dk.tail = 0

\* The codes of 0x10..0x1F that handleDIO has no case for: DIOVERIFY and
\* 0x1C..0x1F.  They reach the default case, emu_fatal.
DioUnhandled == {21} \cup (28..31)

handleDIO(d) ==
  LET func == d.regs.B
      raw_unit == d.regs.C
      is_memdisk == is_md_unit(raw_unit, d.md_disks)
      md_unit == map_md_unit(raw_unit)
      hd_unit == map_hd_unit(raw_unit)
      is_harddisk == is_hd_unit(raw_unit, d.disks)
      lba == (d.regs.D % 128) * 16777216 + d.regs.E * 65536 + d.regs.HL
      buffer == d.regs.HL
      buffer_bank == d.regs.D
      count == d.regs.E
  IN
  doRet(
  CASE func = HBF_DIOSTATUS ->
         IF is_memdisk \/ is_harddisk
         THEN setResult([d EXCEPT !.regs.E = 0], HBR_SUCCESS)
         ELSE setResult([d EXCEPT !.regs.E = 255], HBR_NOUNIT)
    [] func = HBF_DIORESET ->
         IF is_memdisk
         THEN setResult([d EXCEPT !.md_disks[md_unit].current_lba = 0], HBR_SUCCESS)
         ELSE IF is_harddisk
         THEN setResult([d EXCEPT !.disks[hd_unit].current_lba = 0], HBR_SUCCESS)
         ELSE setResult(d, HBR_SUCCESS)
    [] func = HBF_DIOSEEK ->
         IF is_memdisk
         THEN setResult([d EXCEPT !.md_disks[md_unit].current_lba = lba], HBR_SUCCESS)
         ELSE IF is_harddisk
         THEN setResult([d EXCEPT !.disks[hd_unit].current_lba = lba], HBR_SUCCESS)
         ELSE setResult(d, HBR_NOUNIT)
    [] func = HBF_DIOREAD ->
         IF ~is_memdisk /\ ~is_harddisk
         THEN setResult([d EXCEPT !.regs.E = 0], HBR_NOUNIT)
         ELSE IF ~is_memdisk /\ HdNoData(d.disks[hd_unit])
         THEN emu_fatal(d)
         ELSE LET r == IF is_memdisk
                       THEN MdLoop(d, FALSE, md_unit, buffer, buffer_bank, count, 0)
                       ELSE HdReadLoop(d, hd_unit, buffer, buffer_bank, count, 0)
              IN  setResult([r.d EXCEPT !.regs.E = r.blocks], HBR_SUCCESS)
    [] func = HBF_DIOWRITE ->
         IF ~is_memdisk /\ ~is_harddisk
         THEN setResult([d EXCEPT !.regs.E = 0], HBR_NOUNIT)
         ELSE IF is_memdisk /\ d.md_disks[md_unit].is_rom
         THEN setResult([d EXCEPT !.regs.E = 0], HBR_READONLY)
         ELSE IF ~is_memdisk /\ HdNoData(d.disks[hd_unit])
         THEN emu_fatal(d)
         ELSE LET r == IF is_memdisk
                       THEN MdLoop(d, TRUE, md_unit, buffer, buffer_bank, count, 0)
                       ELSE HdWriteLoop(d, hd_unit, buffer, buffer_bank, count, 0)
              IN  setResult([r.d EXCEPT !.regs.E = r.blocks], HBR_SUCCESS)
    [] func = HBF_DIOMEDIA ->
         IF is_memdisk
         THEN setResult([d EXCEPT !.regs.E = IF d.md_disks[md_unit].is_rom
                                             THEN MID_MDROM ELSE MID_MDRAM],
                        HBR_SUCCESS)
         ELSE IF is_harddisk
         THEN setResult([d EXCEPT !.regs.E = MID_HD], HBR_SUCCESS)
         ELSE setResult([d EXCEPT !.regs.E = 255], HBR_NOUNIT)
    [] func = HBF_DIOCAP ->
         LET sectors == IF is_memdisk THEN total_sectors(d.md_disks[md_unit])
                        ELSE d.disks[hd_unit].size \div 512
         IN  IF is_memdisk \/ is_harddisk
             THEN setResult([d EXCEPT !.regs.D = (sectors % 65536) \div 256,
                                      !.regs.E = sectors % 256,
                                      !.regs.HL = (sectors \div 65536) % 65536],
                            HBR_SUCCESS)
             ELSE setResult([d EXCEPT !.regs.D = 0, !.regs.E = 0, !.regs.HL = 0],
                            HBR_NOUNIT)
    [] func \in DioUnhandled -> emu_fatal(d))

-----------------------------------------------------------------------------
(* handleEXT (EXTSLICE), handleSYS (SYSALLOC), handleMainEntry *)

\* A uint32_t is written <<high 16 bits, low 16 bits>> where it can exceed
\* 2^31 (the start LBA of a partition, the LBA of a slice).
\* a + n modulo 2^32, for a uint32_t a and a natural n below 2^31.
Add32(a, n) ==
  LET lo == a[2] + (n % 65536)
      hi == a[1] + (n \div 65536) + (lo \div 65536)
  IN  <<hi % 65536, lo % 65536>>

\* What the probe finds in sector 0: a valid 0x55AA signature, a partition
\* of type 0x2E among the four entries, and the start LBA of the first such
\* partition (bytes 8..11 of its entry, little-endian).
MbrNone == [sig |-> FALSE, has2E |-> FALSE, part_lba |-> <<0, 0>>]
MbrHd1k == [sig |-> TRUE, has2E |-> TRUE, part_lba |-> <<0, 2048>>]

\* The MBR probe of EXTSLICE on a disk not probed before.  The sector read
\* is what the disk holds from then on, until the guest writes sector 0.
ProbeMbr(dk, mbr) ==
  LET mbr_valid == dk.nsec >= 1
      disk_size == IF dk.size = 0 THEN dk.nsec * 512 + dk.tail ELSE dk.size
      found2E == mbr_valid /\ mbr.sig /\ mbr.has2E
      single8M == mbr_valid /\ ~found2E /\ disk_size = 8388608
  IN  [dk EXCEPT !.partition_probed = TRUE,
                 !.partition_base_lba = IF found2E THEN mbr.part_lba ELSE <<0, 0>>,
                 !.slice_size = IF found2E \/ single8M THEN 16384 ELSE 16640,
                 !.is_hd1k = (found2E \/ single8M),
                 !.mbr = IF mbr_valid THEN mbr ELSE @,
                 !.mbr_written = IF mbr_valid THEN FALSE ELSE @]

\* Mutant of ProbeIfNeeded: every EXTSLICE probes.
ProbeIfNeeded_always(dk, mbr) == ProbeMbr(dk, mbr)

\* if (!disk.partition_probed) { ... }: only the first EXTSLICE probes.
ProbeIfNeeded(dk, mbr) ==
  IF dk.partition_probed THEN dk ELSE ProbeMbr(dk, mbr)

\* Mutant of slice_lba: the slice count is taken from 1.
slice_lba_from1(dk, slice) ==
  Add32(dk.partition_base_lba, (slice + 1) * dk.slice_size)

\* slice_lba = disk.partition_base_lba + ((uint32_t)slice * disk.slice_size)
slice_lba(dk, slice) ==
  Add32(dk.partition_base_lba, slice * dk.slice_size)

\* EXTSLICE: D = disk unit, E = slice; B = attributes, C = media id,
\* DE:HL = LBA of the slice on return.
handleEXT(d, mbr) ==
  LET func == d.regs.B
      disk_unit == d.regs.D
      slice == d.regs.E
      is_memdisk == is_md_unit(disk_unit, d.md_disks)
      hd_idx == map_hd_unit(disk_unit)
      is_harddisk == ~is_memdisk /\ is_hd_unit(disk_unit, d.disks)
      dk == IF is_harddisk THEN ProbeIfNeeded(d.disks[hd_idx], mbr) ELSE d.disks[0]
      lba == IF is_harddisk THEN slice_lba(dk, slice) ELSE <<0, 0>>
      media_id == IF is_memdisk
                  THEN (IF disk_unit = 0 \/ (disk_unit >= 128 /\ disk_unit < 130)
                        THEN 1 ELSE 2)
                  ELSE IF is_harddisk /\ dk.is_hd1k THEN 10 ELSE 4
      d2 == IF is_harddisk THEN [d EXCEPT !.disks[hd_idx] = dk] ELSE d
  IN
  doRet(
  CASE func = HBF_EXTSLICE ->
      setResult([d2 EXCEPT !.regs.B = 0, !.regs.C = media_id,
                           !.regs.D = lba[1] \div 256,
                           !.regs.E = lba[1] % 256,
                           !.regs.HL = lba[2]],
                HBR_SUCCESS))

\* The addresses of 0x0000..0x01FF every specification follows: 0x0000,
\* 0x00FF, 0x0100, 0x0112 (APITYPE), 0x01FF.
PageZeroBytes == <<0, 255, 256, 274, 511>>

\* The addresses the copy loops of SYSSETBNK are modelled on: those of
\* PageZeroBytes and the HCB fields 0x010C (DEVCNT), 0x0120..0x012F (DRVMAP)
\* and 0x0160..0x0173 (the first five entries of DISKUT). A specification
\* that does not follow the HCB fields records no write to them (RamPut).
PageZeroCells == PageZeroBytes \o <<268>> \o [i \in 1..16 |-> 287 + i]
                   \o [i \in 1..20 |-> 351 + i]

\* Mutant of CopyPageZero: the bytes come from ROM bank 1.
RECURSIVE CopyPageZero_bank1(_, _, _)
CopyPageZero_bank1(m, new_bank, i) ==
  IF i > Len(PageZeroCells) THEN m
  ELSE LET addr == PageZeroCells[i]
           byte == read_bank(m, 1, addr)
       IN  CHOOSE r \in {CopyPageZero_bank1(m1, new_bank, i + 1)
                         : m1 \in {write_bank(m, new_bank, addr, byte)}} : TRUE

\* The two copy loops of SYSSETBNK, 0x0000..0x00FF and 0x0100..0x01FF, byte
\* after byte from ROM bank 0 into the RAM bank.
RECURSIVE CopyPageZero(_, _, _)
CopyPageZero(m, new_bank, i) ==
  IF i > Len(PageZeroCells) THEN m
  ELSE LET addr == PageZeroCells[i]
           byte == read_bank(m, 0, addr)
       IN  CHOOSE r \in {CopyPageZero(m1, new_bank, i + 1)
                         : m1 \in {write_bank(m, new_bank, addr, byte)}} : TRUE

\* Mutant of InitRamBank: the bank is copied but not marked initialized.
InitRamBank_unmarked(d, new_bank) ==
  IF (new_bank \div 128) % 2 = 1 /\ (new_bank \div 16) % 8 = 0
     /\ (new_bank % 16) \notin d.initialized_ram_banks
  THEN [d EXCEPT !.mem = write_bank(CopyPageZero(@, new_bank, 1), new_bank, 274, 0)]
  ELSE d

\* The first selection of a RAM bank 0x80..0x8F: (new_bank & 0x80) &&
\* !(new_bank & 0x70), and its bit of initialized_ram_banks clear.
InitRamBank(d, new_bank) ==
  IF (new_bank \div 128) % 2 = 1 /\ (new_bank \div 16) % 8 = 0
     /\ (new_bank % 16) \notin d.initialized_ram_banks
  THEN [d EXCEPT !.mem = write_bank(CopyPageZero(@, new_bank, 1), new_bank, 274, 0),
                 !.initialized_ram_banks = @ \cup {new_bank % 16}]
  ELSE d

\* The copy loop of SYSBNKCPY: byte i goes from src_addr + i to dst_addr + i
\* (16-bit sums), an address >= 0x8000 being taken in bank 0x8F.
RECURSIVE BnkCpyLoop(_, _, _, _, _, _, _)
BnkCpyLoop(m, src_bank, dst_bank, src_addr, dst_addr, count, i) ==
  IF i >= count THEN m
  ELSE LET s_addr == U16(src_addr + i)
           d_addr == U16(dst_addr + i)
           byte == IF s_addr >= 32768 THEN read_bank(m, 143, s_addr - 32768)
                   ELSE read_bank(m, src_bank, s_addr)
           m2 == IF d_addr >= 32768 THEN write_bank(m, 143, d_addr - 32768, byte)
                 ELSE write_bank(m, dst_bank, d_addr, byte)
       IN  BnkCpyLoop(m2, src_bank, dst_bank, src_addr, dst_addr, count, i + 1)

\* Mutant of HeapFits: the sum is taken in 16 bits.
HeapFits_u16(ptr, size) == U16(ptr + size) <= heap_end

\* heap_ptr + size <= heap_end: both are uint16_t and the sum is an int.
HeapFits(ptr, size) == ptr + size <= heap_end

(* SYSBOOT *)

\* Characters are their ASCII codes.
IsDigit(c) == c \in 48..57
ToUpper(c) == IF c \in 97..122 THEN c - 32 ELSE c

RECURSIVE SkipSpaces(_)
SkipSpaces(s) ==
  IF s # <<>> /\ Head(s) = 32 THEN SkipSpaces(Tail(s)) ELSE s

\* The digits a string starts with, as a number.
RECURSIVE Digits(_, _)
Digits(s, acc) ==
  IF s # <<>> /\ IsDigit(Head(s)) THEN Digits(Tail(s), acc * 10 + (Head(s) - 48))
  ELSE acc

\* atoi: leading spaces, an optional sign, digits; 0 if there are none.
atoi(s) ==
  LET t == SkipSpaces(s) IN
  IF t # <<>> /\ Head(t) = 45 THEN 0 - Digits(Tail(t), 0)
  ELSE IF t # <<>> /\ Head(t) = 43 THEN Digits(Tail(t), 0)
  ELSE Digits(t, 0)

\* strchr(s, ':') and what follows the colon; <<>> if there is no colon.
RECURSIVE AfterColon(_)
AfterColon(s) ==
  IF s = <<>> THEN <<>>
  ELSE IF Head(s) = 58 THEN <<58>> \o Tail(s)
  ELSE AfterColon(Tail(s))

\* The read loop of SYSBOOT: the bytes at HL up to a NUL, CR or LF, 63 at
\* most.  cmd_str is what guest memory holds from HL on; a NUL follows it.
RECURSIVE ReadCmd(_, _)
ReadCmd(bytes, i) ==
  IF i >= 63 \/ bytes = <<>> \/ Head(bytes) \in {0, 13, 10} THEN <<>>
  ELSE <<Head(bytes)>> \o ReadCmd(Tail(bytes), i + 1)

\* The system image at byte offset 0x5E0 (header) and 0x600 (payload) from
\* the sector base of the disk: the three header words and the payload
\* bytes.  A disk that carries none there reads as zeros.
NoBoot == [load_addr |-> 0, end_addr |-> 0, entry_addr |-> 0, payload |-> <<>>]

BootImageAt(dk, base) ==
  IF base \in DOMAIN dk.boot THEN dk.boot[base] ELSE NoBoot

\* The copy loop of bootFromDevice: bytes go to load_addr onwards while the
\* uint16_t address is below end_addr and the image has bytes.
RECURSIVE BootLoad(_, _, _, _)
BootLoad(m, addr, end_addr, bytes) ==
  IF bytes = <<>> \/ addr >= end_addr THEN m
  ELSE BootLoad(store_mem(m, addr, Head(bytes)), U16(addr + 1), end_addr, Tail(bytes))

\* The unit and the slice bootFromDevice parses out of the command.
BootUnit(cmd) ==
  LET isHDMD == /\ Len(cmd) >= 2
                /\ ToUpper(cmd[1]) \in {72, 77}          \* 'H', 'M'
                /\ ToUpper(cmd[2]) = 68                   \* 'D'
      p == SubSeq(cmd, 3, Len(cmd))
      colon == AfterColon(p)
  IN  IF isHDMD
      THEN [boot_unit |-> atoi(p),
            boot_slice |-> IF colon # <<>> THEN atoi(Tail(colon)) ELSE 0]
      ELSE IF cmd # <<>> /\ IsDigit(cmd[1])
      THEN [boot_unit |-> atoi(cmd), boot_slice |-> 0]
      ELSE [boot_unit |-> 0, boot_slice |-> 0]

\* The sector base the header offset 0x5E0 and the payload offset 0x600 are
\* taken from: the start of the disk, whatever the slice.
BootBase(dk, boot_slice) == 0

\* bootFromDevice for a disk command.  No ROM application is registered, so a
\* single letter is a disk command as well; it selects unit 0.  The slots the
\* model does not follow are closed.
bootFromDevice(d, cmd_str) ==
  LET cmd == SkipSpaces(cmd_str)
      u == BootUnit(cmd)
      boot_unit == u.boot_unit
  IN  IF boot_unit < 0 \/ boot_unit >= 16 \/ boot_unit \notin DOMAIN d.disks
         \/ ~d.disks[boot_unit].is_open
      THEN emu_fatal(d)
      ELSE LET dk == d.disks[boot_unit]
               img == BootImageAt(dk, BootBase(dk, u.boot_slice))
           IN  IF dk.size < 1536                               \* 0x600
               THEN emu_fatal(d)
               ELSE setResult([d EXCEPT !.mem = BootLoad(@, img.load_addr, img.end_addr,
                                                         img.payload),
                                        !.regs.D = boot_unit,
                                        !.regs.E = 0,
                                        !.pc = img.entry_addr],
                              HBR_SUCCESS)

\* The codes of 0xF0..0xFF that handleSYS has no case for: 0xFD and 0xFF.
\* They reach the default case, emu_fatal.
SysUnhandled == {253, 255}

\* SYSSETBNK: C = bank to select; C = bank selected before, on return.
\* SYSSETCPY: D = destination bank, E = source bank, HL = count.
\* SYSBNKCPY: HL = source address, DE = destination address.
\* SYSALLOC: HL = size; the flag byte is written whole before setResult.
\* SYSPOKE: D = bank, E = byte, HL = address; write_bank below 0x8000,
\* store_mem above.
handleSYS(d) ==
  LET func == d.regs.B
      size == d.regs.HL
      new_bank == d.regs.C
      prev_bank == d.mem.current_bank
  IN
  doRet(
  CASE func = HBF_SYSSETBNK ->
         LET d2 == InitRamBank(d, new_bank)
         IN  setResult([d2 EXCEPT !.mem = select_bank(@, new_bank),
                                  !.cur_bank = new_bank,
                                  !.regs.C = prev_bank],
                       HBR_SUCCESS)
    [] func = HBF_SYSSETCPY ->
         setResult([d EXCEPT !.bnkcpy_dst_bank = d.regs.D,
                             !.bnkcpy_src_bank = d.regs.E,
                             !.bnkcpy_count = d.regs.HL],
                   HBR_SUCCESS)
    [] func = HBF_SYSBNKCPY ->
         setResult([d EXCEPT !.mem = BnkCpyLoop(@, d.bnkcpy_src_bank, d.bnkcpy_dst_bank,
                                                d.regs.HL, d.regs.D * 256 + d.regs.E,
                                                d.bnkcpy_count, 0)],
                   HBR_SUCCESS)
    [] func = HBF_SYSALLOC ->
         IF HeapFits(d.heap_ptr, size)
         THEN setResult([d EXCEPT !.regs.HL = d.heap_ptr,
                                  !.heap_ptr = U16(@ + size),
                                  !.regs.Z = TRUE, !.regs.CY = FALSE],
                        HBR_SUCCESS)
         ELSE setResult([d EXCEPT !.regs.HL = 0,
                                  !.regs.Z = FALSE, !.regs.CY = TRUE],
                        HBR_NOMEM)
    [] func = HBF_SYSPEEK ->
         setResult([d EXCEPT !.regs.E = IF d.regs.HL < 32768
                                        THEN read_bank(d.mem, d.regs.D, d.regs.HL)
                                        ELSE fetch_mem(d.mem, d.regs.HL)],
                   HBR_SUCCESS)
    [] func = HBF_SYSPOKE ->
         setResult([d EXCEPT !.mem = IF d.regs.HL < 32768
                                     THEN write_bank(@, d.regs.D, d.regs.HL, d.regs.E)
                                     ELSE store_mem(@, d.regs.HL, d.regs.E)],
                   HBR_SUCCESS)
    [] func = HBF_SYSBOOT ->
         CHOOSE r \in {IF booted.halted THEN booted ELSE setResult(booted, HBR_SUCCESS)
                       : booted \in {bootFromDevice(d, SkipSpaces(ReadCmd(d.cmd_str, 0)))}}
                  : TRUE
    [] func \in SysUnhandled -> emu_fatal(d))

\* SYSALLOC of the CLI front end's handle_hbios_call, with its result
\* epilogue; d.heap_ptr stands for the handler's static heap_ptr, which also
\* starts at 0x0200 and ends at 0x8000.
handle_hbios_call_SYSALLOC(d) ==
  LET size == d.regs.HL IN
  IF HeapFits(d.heap_ptr, size)
  THEN [d EXCEPT !.regs = cli_set_result([@ EXCEPT !.HL = d.heap_ptr], HBR_SUCCESS),
                 !.heap_ptr = U16(@ + size)]
  ELSE [d EXCEPT !.regs = cli_set_result([@ EXCEPT !.HL = 0], HBR_FAILED)]

\* getTrapTypeFromFunc, for the classes modelled here; -1 is no class.
(* The console, and the service classes without a disk or a bank *)

\* emu_console_has_input and emu_console_read_char on the queued input: a
\* line feed is read as a carriage return.
emu_console_has_input(d) == Len(d.con_in) > 0

\* Mutant of emu_console_read_char: a line feed stays a line feed.
emu_console_read_char_raw(d) ==
  [ch |-> Head(d.con_in), d |-> [d EXCEPT !.con_in = Tail(@)]]

emu_console_read_char(d) ==
  [ch |-> IF Head(d.con_in) = 10 THEN 13 ELSE Head(d.con_in),
   d  |-> [d EXCEPT !.con_in = Tail(@)]]

\* The codes of 0x00..0x0F that handleCIO has no case for.
CioUnhandled == 7..15

\* The tail of CIOIN and of VDAKRD: the character goes to E.
KeyRead(d) ==
  LET r == emu_console_read_char(d) IN [r.d EXCEPT !.regs.E = r.ch % 256]

\* handleCIO.  CIOIN under port dispatch with blocking allowed sleeps until
\* input is there: polling is the handler inside that loop, and PollWake
\* runs it on from there.
handleCIO(d) ==
  LET func == d.regs.B IN
  CASE func = HBF_CIOIN ->
         IF d.skip_ret /\ d.blocking_allowed
         THEN IF ~emu_console_has_input(d)
              THEN [d EXCEPT !.polling = TRUE]
              ELSE doRet(setResult([KeyRead(d) EXCEPT !.waiting_for_input = FALSE],
                                   HBR_SUCCESS))
         ELSE IF ~emu_console_has_input(d)
         THEN LET w == [d EXCEPT !.waiting_for_input = TRUE] IN
              IF ~d.skip_ret THEN w
              ELSE doRet(setResult([w EXCEPT !.regs.E = 0], HBR_SUCCESS))
         ELSE doRet(setResult([KeyRead(d) EXCEPT !.waiting_for_input = FALSE],
                              HBR_SUCCESS))
    [] func = HBF_CIOIST ->
         doRet(setResult(d, IF emu_console_has_input(d) THEN 1 ELSE 0))
    [] func \in CioUnhandled -> emu_fatal(d)

\* handleRTC: every code but RTCGETTIM and RTCSETTIM is fatal.
RtcUnhandled == 34..47

handleRTC(d) ==
  LET func == d.regs.B IN
  CASE func = HBF_RTCSETTIM -> doRet(setResult(d, HBR_SUCCESS))
    [] func \in RtcUnhandled -> emu_fatal(d)

\* handleVDA: the default case logs and the call succeeds.  VDADEV, VDASCS,
\* VDACPY and VDAKFL have no case.
VdaUnhandled == {67, 68, 74, 77}

handleVDA(d) ==
  LET func == d.regs.B IN
  CASE func = HBF_VDAKRD ->
         IF ~emu_console_has_input(d)
         THEN [d EXCEPT !.waiting_for_input = TRUE]
         ELSE doRet(setResult(KeyRead(d), HBR_SUCCESS))
    [] func = HBF_VDAKST ->
         doRet(setResult([d EXCEPT !.regs.E = IF emu_console_has_input(d)
                                              THEN 255 ELSE 0],
                         HBR_SUCCESS))
    [] func \in VdaUnhandled -> doRet(setResult(d, HBR_SUCCESS))

\* handleSND: the default case logs and the call succeeds.  SNDDEVICE and
\* 0x59..0x5F have no case.
SndUnhandled == {87} \cup (89..95)

handleSND(d) ==
  LET func == d.regs.B IN
  CASE func = HBF_SNDQUERY ->
         doRet(setResult([d EXCEPT !.regs.D = 0, !.regs.E = 1], HBR_SUCCESS))
    [] func \in SndUnhandled -> doRet(setResult(d, HBR_SUCCESS))

\* handleDSKY: every code, with a case or without, gets "no hardware".
handleDSKY(d) == doRet(setResult(d, HBR_NOHW))

getTrapTypeFromFunc(func) ==
  IF func <= 15 THEN 0
  ELSE IF func <= 31 THEN 1
  ELSE IF func <= 47 THEN 2
  ELSE IF func <= 63 THEN 6
  ELSE IF func <= 79 THEN 4
  ELSE IF func <= 95 THEN 5
  ELSE IF func >= 224 /\ func <= 231 THEN 7
  ELSE IF func >= 240 THEN 3
  ELSE -1

\* handleMainEntry: dispatch on B; a function of no class fails.
handleMainEntry(d, mbr) ==
  LET trap_type == getTrapTypeFromFunc(d.regs.B) IN
  CASE trap_type = 0 -> handleCIO(d)
    [] trap_type = 1 -> handleDIO(d)
    [] trap_type = 2 -> handleRTC(d)
    [] trap_type = 3 -> handleSYS(d)
    [] trap_type = 4 -> handleVDA(d)
    [] trap_type = 5 -> handleSND(d)
    [] trap_type = 6 -> handleDSKY(d)
    [] trap_type = 7 -> handleEXT(d, mbr)
    [] OTHER -> doRet(setResult(d, HBR_FAILED))

\* getTrapType of the main entry is -2; the per-class addresses give the
\* class directly.
handleCall(d, trap_type, mbr) ==
  CASE trap_type = -2 -> handleMainEntry(d, mbr)
    [] trap_type = 0 -> handleCIO(d)
    [] trap_type = 1 -> handleDIO(d)
    [] trap_type = 2 -> handleRTC(d)
    [] trap_type = 3 -> handleSYS(d)
    [] trap_type = 4 -> handleVDA(d)
    [] trap_type = 5 -> handleSND(d)
    [] trap_type = 6 -> handleDSKY(d)
    [] trap_type = 7 -> handleEXT(d, mbr)

\* handlePortDispatch: the synthetic return is off for the length of the
\* call.  A handler that is still in its sleep loop has not come back.
handlePortDispatch(d, mbr) ==
  CHOOSE r \in {[d1 EXCEPT !.skip_ret = d1.polling \/ d1.halted]
                : d1 \in {handleMainEntry([d EXCEPT !.skip_ret = TRUE], mbr)}} : TRUE

-----------------------------------------------------------------------------
(* Disk management: loadDisk, closeDisk, initMemoryDisks, reset *)

closeDisk(dks, unit) ==
  [dks EXCEPT ![unit].data = [k \in {} |-> ZeroSector],
              ![unit].nsec = 0,
              ![unit].tail = 0,
              ![unit].is_open = FALSE,
              ![unit].file_backed = FALSE,
              ![unit].boot = <<>>,
              ![unit].size = 0]

\* loadDisk(unit, data, size): the image replaces the slot's data; the seek
\* position and the probe results of the slot are left as they are.
\* The system images of a disk image, by the sector they start at; most
\* images carry none.
ImgBoot(img) == IF "boot" \in DOMAIN img THEN img.boot ELSE <<>>

loadDisk(dks, unit, img) ==
  [closeDisk(dks, unit) EXCEPT ![unit].data = img.data,
                               ![unit].nsec = img.nsec,
                               ![unit].tail = img.tail,
                               ![unit].size = img.nsec * 512 + img.tail,
                               ![unit].mbr = img.mbr,
                               ![unit].mbr_written = FALSE,
                               ![unit].is_open = TRUE,
                               ![unit].file_backed = FALSE,
                               ![unit].boot = ImgBoot(img),
                               ![unit].rw = TRUE]

\* loadDiskFromFile(unit, path): the file of the path is opened, "rw" or, if
\* that fails, "r" (img.rw tells which), and its length recorded as the size.
loadDiskFromFile(dks, unit, img) ==
  [closeDisk(dks, unit) EXCEPT ![unit].data = img.data,
                               ![unit].nsec = img.nsec,
                               ![unit].tail = img.tail,
                               ![unit].size = img.nsec * 512 + img.tail,
                               ![unit].mbr = img.mbr,
                               ![unit].mbr_written = FALSE,
                               ![unit].is_open = TRUE,
                               ![unit].file_backed = TRUE,
                               ![unit].boot = ImgBoot(img),
                               ![unit].rw = IF "rw" \in DOMAIN img THEN img.rw ELSE TRUE]

\* initMemoryDisks: MD0 and MD1 from the HCB bytes 0x1DC..0x1DF of ROM bank 0.
initMemoryDisks(mds, m) ==
  LET ramd_start == read_bank(m, 0, 476)
      ramd_banks == read_bank(m, 0, 477)
      romd_start == read_bank(m, 0, 478)
      romd_banks == read_bank(m, 0, 479)
      md0 == IF ramd_banks > 0
             THEN [current_lba |-> 0, start_bank |-> ramd_start,
                   num_banks |-> ramd_banks, is_rom |-> FALSE, is_enabled |-> TRUE]
             ELSE mds[0]
      md1 == IF romd_banks > 0
             THEN [current_lba |-> 0, start_bank |-> romd_start,
                   num_banks |-> romd_banks, is_rom |-> TRUE, is_enabled |-> TRUE]
             ELSE mds[1]
  IN  [i \in 0..1 |-> IF i = 0 THEN md0 ELSE md1]

\* The slots of disks[16] images are loaded into.
DiskSlots == {0, 15}

\* The memory disks as the constructor and reset() leave them.
NoMemDisk == [current_lba |-> 0, start_bank |-> 0, num_banks |-> 0,
              is_rom |-> FALSE, is_enabled |-> FALSE]

\* A disk slot as constructed.
NoDisk == [is_open |-> FALSE, size |-> 0, nsec |-> 0,
           data |-> [k \in {} |-> ZeroSector],
           mbr |-> MbrNone, mbr_written |-> FALSE, current_lba |-> 0,
           file_backed |-> FALSE, tail |-> 0, rw |-> TRUE, boot |-> <<>>,
           partition_probed |-> FALSE, partition_base_lba |-> <<0, 0>>,
           slice_size |-> 16640, is_hd1k |-> FALSE]

-----------------------------------------------------------------------------
(* HBIOSDispatch::populateDiskUnitTable *)

DISKUT_BASE == 352        \* 0x160, HCB+0x60
DRVMAP_BASE == 288        \* 0x120, HCB+0x20
CB_DEVCNT   == 268        \* 0x10C, HCB+0x0C

\* The slots of disks[] the model loads images into, in the order the loops
\* of populateDiskUnitTable visit them.
SlotSeq == <<0, 15>>

\* memory->write_bank(w[1], w[2], w[3]) for every w of writes[lo..hi], in
\* order: the first half, then the second.
RECURSIVE WriteAll(_, _, _, _)
WriteAll(m, writes, lo, hi) ==
  IF lo > hi THEN m
  ELSE IF lo = hi THEN write_bank(m, writes[lo][1], writes[lo][2], writes[lo][3])
  ELSE LET mid == (lo + hi) \div 2
       IN  CHOOSE r \in {WriteAll(m1, writes, mid + 1, hi)
                         : m1 \in {WriteAll(m, writes, lo, mid)}} : TRUE

\* One byte written to ROM bank 0 and to RAM bank 0x80.
BothBanks(addr, byte) == <<<<0, addr, byte>>, <<128, addr, byte>>>>

RECURSIVE Concat(_, _)
Concat(seqs, i) == IF i > Len(seqs) THEN <<>> ELSE seqs[i] \o Concat(seqs, i + 1)

\* The DISKUT entries, <<device type, unit>>: the enabled memory disks, then
\* the open hard disks, sixteen at most.
DiskutEntries(d) ==
  LET md == SelectSeq(<<0, 1>>, LAMBDA i : d.md_disks[i].is_enabled)
      hd == SelectSeq(SlotSeq, LAMBDA u : d.disks[u].is_open)
      all == [k \in 1..Len(md) |-> <<0, md[k]>>] \o [k \in 1..Len(hd) |-> <<9, hd[k]>>]
  IN  SubSeq(all, 1, IF Len(all) > 16 THEN 16 ELSE Len(all))

\* The DRVMAP bytes: the enabled memory disks, then four slices of every open
\* hard disk with unit = hd + 2, ((slice & 0x0F) << 4) | (unit & 0x0F), sixteen
\* at most.
DrvmapBytes(d) ==
  LET md == SelectSeq(<<0, 1>>, LAMBDA i : d.md_disks[i].is_enabled)
      hd == SelectSeq(SlotSeq, LAMBDA u : d.disks[u].is_open)
      all == md \o Concat([k \in 1..Len(hd) |->
                              [slice \in 1..4 |->
                                 ((slice - 1) % 16) * 16 + ((hd[k] + 2) % 16)]], 1)
  IN  SubSeq(all, 1, IF Len(all) > 16 THEN 16 ELSE Len(all))

populateDiskUnitTable(d) ==
  LET ut == DiskutEntries(d)
      dm == DrvmapBytes(d)
      writes ==
        Concat([k \in 1..64 |-> BothBanks(DISKUT_BASE + k - 1, 255)], 1)
        \o Concat([k \in 1..Len(ut) |->
                     LET at == DISKUT_BASE + (k - 1) * 4
                         entry == <<ut[k][1], ut[k][2], 0, 0>>
                     IN  [j \in 1..4 |-> <<0, at + j - 1, entry[j]>>]
                           \o [j \in 1..4 |-> <<128, at + j - 1, entry[j]>>]], 1)
        \o Concat([k \in 1..16 |-> BothBanks(DRVMAP_BASE + k - 1, 255)], 1)
        \o Concat([k \in 1..Len(dm) |-> BothBanks(DRVMAP_BASE + k - 1, dm[k])], 1)
        \o BothBanks(CB_DEVCNT, Len(dm))
  IN  [d EXCEPT !.mem = WriteAll(@, writes, 1, Len(writes))]

-----------------------------------------------------------------------------
(* The memory after romwbw_load_rom (romwbw_web.cc:178-209) *)

\* Offsets inside a 32 KiB bank the model tracks: the first and last byte of
\* sectors 0, 1, 62 and 63 (0x0000, 0x01FF, 0x0200, 0x03FF, 0x7C00, 0x7DFF,
\* 0x7E00, 0x7FFF) and the edges of the ident ranges (0x7E02, 0x7E03, 0x7F00,
\* 0x7F02, 0x7F03, 0x7FFB, 0x7FFC, 0x7FFD, 0x7FFE).
MemOffsets == {0, 511, 512, 1023, 31744, 32255, 32256, 32258, 32259, 32512,
               32514, 32515, 32763, 32764, 32765, 32766, 32767}
                \cup {255, 256, 274, 513}       \* 0x00FF 0x0100 0x0112 0x0201
                \cup {1655, 1656, 1659, 1660}   \* 0x0677 0x0678 0x067B 0x067C

\* RAM banks 0x80, 0x81, 0x82, 0x8E, 0x8F and ROM banks 0x00, 0x01 are
\* tracked, and the four HCB bytes 0x1DC..0x1DF of ROM bank 0.
MemRamBanks == {0, 1, 2, 14, 15}
MemRomBanks == {0, 1}

MemRamCells == {b * BANK_SIZE + o : b \in MemRamBanks, o \in MemOffsets}
MemRomCells == {b * BANK_SIZE + o : b \in MemRomBanks, o \in MemOffsets}
                 \cup (476..479)

\* The HCB bytes of three ROM images, <<RAM disk start bank, RAM disk banks,
\* ROM disk start bank, ROM disk banks>>: RAM disk in 0x81..0x82; RAM disk in
\* 0x8E..0x8F, the common bank; no memory disk.  The ROM disk is ROM bank 1.
HcbStd  == <<129, 2, 1, 1>>
HcbTop  == <<142, 2, 1, 1>>
HcbNone == <<0, 0, 0, 0>>

\* A ROM image: the HCB bytes, and every other tracked byte of ROM bank b is
\* 0xE0 + b (this tells the banks apart and differs from every byte the
\* guest stores); the image is 0xFF wherever the model does not track it.
\* romwbw_load_rom patches APITYPE, byte 0x0112 of ROM bank 0, to 0x00.
RomImage(cells, hcb) ==
  [p \in cells |-> IF p \in 476..479 THEN hcb[p - 475]
                   ELSE IF p = 274 THEN 0
                   ELSE 224 + (p \div BANK_SIZE)]

\* setup_hbios_ident: 'W', ~'W', 0x35 at 0xFE00 and 0xFF00, and the pointer
\* 0xFF00 at 0xFFFC, written straight into ram[] (bank index 15).
IdentBytes ==
  [p \in {523776, 523777, 523778, 524032, 524033, 524034, 524284, 524285} |->
     CASE p \in {523776, 524032} -> 87       \* 'W'
       [] p \in {523777, 524033} -> 168      \* 0xA8
       [] p \in {523778, 524034} -> 53       \* 0x35
       [] p = 524284 -> 0
       [] p = 524285 -> 255]

\* RAM after load: zero, the first 512 bytes of ROM bank 0 copied to RAM
\* bank 0x80, the ident block in the common bank.
LoadedRam(romv, cells) ==
  [p \in cells |-> IF p < 512 /\ p \in DOMAIN romv THEN romv[p]
                   ELSE IF p \in DOMAIN IdentBytes THEN IdentBytes[p]
                   ELSE 0]

\* The HCB fields populateDiskUnitTable writes, as far as the model follows
\* them, in ROM bank 0 and RAM bank 0x80.
HcbOffsets == {CB_DEVCNT} \cup (DRVMAP_BASE..(DRVMAP_BASE + 15))
                \cup (DISKUT_BASE..(DISKUT_BASE + 19))

\* The memory with the cells of extra followed besides.
MemInitOn(hcb, extra) ==
  /\ rom = RomImage(MemRomCells \cup extra, hcb)
  /\ ram = LoadedRam(rom, MemRamCells \cup extra)
  /\ shadow_bitmap = {}
  /\ current_bank = 0
  /\ nops = 0
  /\ rom_stored = {}
  /\ last_op = <<"load">>

MemInitWith(hcb) ==
  /\ rom = RomImage(MemRomCells, hcb)
  /\ ram = LoadedRam(rom, MemRamCells)
  /\ shadow_bitmap = {}
  /\ current_bank = 0
  /\ nops = 0
  /\ rom_stored = {}
  /\ last_op = <<"load">>

MemInit == MemInitWith(HcbStd)

\* The dispatcher after construction and romwbw_load_rom, which ends with
\* initMemoryDisks; no disk image is loaded yet.
ConInitOn(blocking) ==
  /\ PC = 0
  /\ SP = 0
  /\ waiting_for_input = FALSE
  /\ skip_ret = FALSE
  /\ blocking_allowed = blocking
  /\ con_in = <<>>
  /\ polling = FALSE
  /\ halted = FALSE

DioInitFor(cy, dks, blocking) ==
  /\ ConInitOn(blocking)
  /\ regs = [A |-> 0, Z |-> FALSE, CY |-> cy,
             B |-> 0, C |-> 0, D |-> 0, E |-> 0, HL |-> 0]
  /\ md_disks = initMemoryDisks([i \in 0..1 |-> NoMemDisk], Mem)
  /\ disks = dks
  /\ heap_ptr = 512                                        \* 0x0200
  /\ ndio = 0
  /\ last_call = [B |-> 0, C |-> 0, D |-> 0, E |-> 0, HL |-> 0, CY |-> FALSE]
  /\ rt_pc = 0
  /\ rt_data = [unit |-> 0, lba |-> <<0, 0, 0>>, n |-> 0,
                wbuf |-> <<0, 0>>, rbuf |-> <<0, 0>>, bytes |-> <<>>]
  /\ ext_seen = {}
  /\ ever_initialized = {}
  /\ since_reset = {}
  /\ cur_bank = 0
  /\ bnkcpy_src_bank = 142                                 \* 0x8E
  /\ bnkcpy_dst_bank = 142
  /\ bnkcpy_count = 0
  /\ initialized_ram_banks = {}

\* blocking_allowed is true unless setBlockingAllowed is called.
DioInitOn(cy, dks) == DioInitFor(cy, dks, TRUE)

DioInitWith(cy) == DioInitOn(cy, [u \in DiskSlots |-> NoDisk])

DioInit == DioInitWith(FALSE)

\* Inputs of the memory operations.
StoreAddrs  == {0, 32256, 65024, 65027}     \* 0x0000 0x7E00 0xFE00 0xFE03
StoreBytes  == {1, 2}
SelectIds   == {0, 1, 128, 129, 143, 144}   \* 0x00 0x01 0x80 0x81 0x8F 0x90
PokeBanks   == {1, 128, 143}                \* 0x01 0x80 0x8F
PokeAddrs   == {0, 32256, 65024}

SetMem(m) ==
  /\ ram' = m.ram
  /\ shadow_bitmap' = m.shadow_bitmap
  /\ current_bank' = m.current_bank
  /\ rom' = m.rom

\* A guest store instruction: qkz80 calls banked_mem::store_mem.
Store(addr, byte) ==
  /\ nops < MaxMemOps
  /\ UNCHANGED <<sigVars, dioVars>>
  /\ SetMem(store_mem(Mem, addr, byte))
  /\ rom_stored' = IF addr < BANK_BOUNDARY /\ ~IsRamId(current_bank)
                   THEN rom_stored \cup {addr} ELSE rom_stored
  /\ last_op' = <<"store", addr, byte>>
  /\ nops' = nops + 1

\* OUT (0x78)/(0x7C),value: hbios_cpu::port_out selects the bank.
SelectBank(bank_id) ==
  /\ nops < MaxMemOps
  /\ UNCHANGED <<sigVars, dioVars>>
  /\ SetMem(select_bank(Mem, bank_id))
  /\ last_op' = <<"select", bank_id>>
  /\ nops' = nops + 1
  /\ UNCHANGED rom_stored

-----------------------------------------------------------------------------
(* Specification of the signal port and trap detection *)

SigInit ==
  /\ trapping_enabled = FALSE
  /\ main_entry = 65520                                    \* 0xFFF0
  /\ dispatch = [h \in 0..5 |-> 0]
  /\ signal_state = 0
  /\ signal_addr = 0
  /\ hbios_trapping_enabled = FALSE
  /\ cli_dispatch_addr = [h \in 0..3 |-> 0]
  /\ nsignals = 0
  /\ reg_left = 0
  /\ ff_idle = FALSE

Init == SigInit /\ MemInit /\ DioInit

\* OUT (0xEE),value: hbios_cpu::port_out -> handleSignalPort; the CLI build
\* routes the same port to handle_emu_signal.
SignalPort(value) ==
  LET n == handleSignalPort(SigState, value) IN
  /\ nsignals < MaxSignals
  /\ trapping_enabled' = n.trapping_enabled
  /\ dispatch' = n.dispatch
  /\ signal_state' = n.signal_state
  /\ signal_addr' = n.signal_addr
  /\ hbios_trapping_enabled' = handle_emu_signal(hbios_trapping_enabled, value)
  /\ nsignals' = nsignals + 1
  /\ reg_left' = IF reg_left = 0 THEN DeclaredBytes(value) ELSE reg_left - 1
  /\ ff_idle' = (ff_idle \/ (signal_state = 0 /\ value = 255))
  /\ UNCHANGED <<main_entry, cli_dispatch_addr, memVars, dioVars>>

\* HBIOSDispatch::reset (the byte budget of the model is not refilled).
Reset ==
  /\ trapping_enabled' = FALSE
  /\ main_entry' = 65520
  /\ dispatch' = [h \in 0..5 |-> 0]
  /\ signal_state' = 0
  /\ signal_addr' = 0
  /\ reg_left' = 0
  /\ ff_idle' = FALSE
  /\ md_disks' = [i \in 0..1 |-> NoMemDisk]
  /\ heap_ptr' = 512
  /\ cur_bank' = 0
  /\ bnkcpy_src_bank' = 142
  /\ bnkcpy_dst_bank' = 142
  /\ bnkcpy_count' = 0
  /\ initialized_ram_banks' = {}
  /\ waiting_for_input' = FALSE
  /\ UNCHANGED <<hbios_trapping_enabled, cli_dispatch_addr, nsignals, memVars,
                 regs, disks, ndio, last_call, rt_pc, rt_data,
                 ext_seen, ever_initialized,
                 PC, SP, skip_ret, blocking_allowed, con_in, polling, halted>>
  /\ since_reset' = {}

SigNext ==
  \/ \E value \in SignalBytes : SignalPort(value)
  \/ Reset

Spec == Init /\ [][SigNext]_vars

-----------------------------------------------------------------------------
(* Specification of the service calls and the disk management *)

\* The dispatcher after romwbw_load_rom of one of the three ROM images, the
\* guest's carry flag set or clear.
InitDio ==
  /\ SigInit
  /\ \E hcb \in {HcbStd, HcbTop, HcbNone} : MemInitWith(hcb)
  /\ \E cy \in BOOLEAN : DioInitWith(cy)

\* Two disk images: 1 KiB without partition table, and an image with a type
\* 0x2E partition at LBA 2048.  Byte i of sector k is 0xD0 + (k mod 16) + i.
ImgPlain == [nsec |-> 2, tail |-> 0, mbr |-> MbrNone,
             data |-> [k \in {0, 1} |-> [i \in 1..Len(SectorBytes) |-> 208 + k + i]]]
ImgHd1k  == [nsec |-> 18432, tail |-> 0, mbr |-> MbrHd1k,
             data |-> [k \in HdSectors |-> [i \in 1..Len(SectorBytes) |-> 208 + (k % 16) + i]]]
\* An image of no bytes: romwbw_load_disk(unit, data, 0).
ImgEmpty == [nsec |-> 0, tail |-> 0, mbr |-> MbrNone, data |-> [k \in {} |-> ZeroSector]]

\* Inputs of the calls.
StatusUnits == {0, 1, 2, 17, 18, 80, 128, 133, 144, 159, 195, 208}
DiskUnits   == {0, 2, 80, 129, 159}     \* 0x00 0x02 0x50 0x81 0x9F
SeekLbas    == {0, 127, 128}
Counts      == {1, 2}
Buffers     == {<<0, 32768>>, <<143, 31744>>}    \* <<D, HL>>: 0x8000; 0x8F:0x7C00
AllocSizes  == {256, 32256, 65535}               \* 0x0100 0x7E00 0xFFFF

\* What sector 0 holds when EXTSLICE probes the disk of unit: the image's
\* MBR, or anything once the guest has written sector 0.
ProbeChoices(unit) ==
  LET hd_idx == map_hd_unit(unit) IN
  IF hd_idx \notin DOMAIN disks THEN {MbrNone}
  ELSE IF disks[hd_idx].mbr_written THEN {MbrNone, MbrHd1k}
  ELSE {disks[hd_idx].mbr}

\* The machine a handler leaves behind becomes the state.
Commit(d1) ==
  /\ regs' = d1.regs
  /\ md_disks' = d1.md_disks
  /\ disks' = d1.disks
  /\ heap_ptr' = d1.heap_ptr
  /\ SetMem(d1.mem)
  /\ cur_bank' = d1.cur_bank
  /\ bnkcpy_src_bank' = d1.bnkcpy_src_bank
  /\ bnkcpy_dst_bank' = d1.bnkcpy_dst_bank
  /\ bnkcpy_count' = d1.bnkcpy_count
  /\ initialized_ram_banks' = d1.initialized_ram_banks
  /\ PC' = d1.pc
  /\ SP' = d1.sp
  /\ waiting_for_input' = d1.waiting_for_input
  /\ skip_ret' = d1.skip_ret
  /\ con_in' = d1.con_in
  /\ polling' = d1.polling
  /\ halted' = d1.halted
  /\ UNCHANGED blocking_allowed

\* What the observers record of a call.
Observe(b, c, dd, e, hl) ==
  /\ last_call' = [B |-> b, C |-> c, D |-> dd, E |-> e, HL |-> hl, CY |-> regs.CY]
  /\ ext_seen' = IF b = HBF_EXTSLICE /\ ~is_md_unit(dd, md_disks)
                    /\ is_hd_unit(dd, disks)
                 THEN ext_seen \cup {map_hd_unit(dd)} ELSE ext_seen
  /\ ever_initialized' = IF b = HBF_SYSSETBNK /\ c \in 128..143
                         THEN ever_initialized \cup {c % 16} ELSE ever_initialized
  /\ since_reset' = IF b = HBF_SYSSETBNK /\ c \in 128..143
                    THEN since_reset \cup {c % 16} ELSE since_reset

\* OUT (0xEF),A with the guest's registers: handlePortDispatch ->
\* handleMainEntry.  A and the flags are what the guest had; junk is what the
\* stack holds where the call's local arrays come to lie.
\* cmd is what guest memory holds at HL, for the one call that reads a string
\* there.
CallCmd(b, c, dd, e, hl, mbr, junk, cmd) ==
  LET cy == regs.CY
      d0 == [Machine EXCEPT !.regs = [A |-> regs.A, Z |-> regs.Z, CY |-> cy,
                                      B |-> b, C |-> c, D |-> dd, E |-> e, HL |-> hl],
                            !.sector_buf = junk,
                            !.cmd_str = cmd]
  IN  /\ ~halted /\ ~polling
      /\ \E d1 \in {handlePortDispatch(d0, mbr)} : Commit(d1)
      /\ Observe(b, c, dd, e, hl)

CallWith(b, c, dd, e, hl, mbr, junk) == CallCmd(b, c, dd, e, hl, mbr, junk, <<>>)

\* A call that reads no local array before writing it.
Call(b, c, dd, e, hl, mbr) == CallWith(b, c, dd, e, hl, mbr, ZeroSector)

\* What a call of the free-running specification leaves alone.
CallFrame ==
  /\ ndio < MaxDioOps
  /\ ndio' = ndio + 1
  /\ UNCHANGED <<sigVars, nops, rom_stored, last_op, rt_pc, rt_data>>

\* SYSPOKE called by the guest, as a memory operation.
SysPoke(bank, addr, byte) ==
  /\ nops < MaxMemOps
  /\ Call(HBF_SYSPOKE, regs.C, bank, byte, addr, MbrNone)
  /\ last_op' = <<"poke", bank, addr, byte>>
  /\ nops' = nops + 1
  /\ UNCHANGED <<sigVars, rom_stored, ndio, rt_pc, rt_data>>

MemNext ==
  \/ \E addr \in StoreAddrs, byte \in StoreBytes : Store(addr, byte)
  \/ \E bank_id \in SelectIds : SelectBank(bank_id)
  \/ \E bank \in PokeBanks, addr \in PokeAddrs : SysPoke(bank, addr, 1)

SpecMem == Init /\ [][MemNext]_vars

DioStatus(unit) ==
  CallFrame /\ Call(HBF_DIOSTATUS, unit, regs.D, regs.E, regs.HL, MbrNone)

DioReset(unit) ==
  CallFrame /\ Call(HBF_DIORESET, unit, regs.D, regs.E, regs.HL, MbrNone)

DioSeek(unit, lba) ==
  CallFrame /\ Call(HBF_DIOSEEK, unit, 128, 0, lba, MbrNone)

DioRead(unit, buf, count) ==
  CallFrame /\ Call(HBF_DIOREAD, unit, buf[1], count, buf[2], MbrNone)

DioWrite(unit, buf, count) ==
  CallFrame /\ Call(HBF_DIOWRITE, unit, buf[1], count, buf[2], MbrNone)

ExtSlice(unit, slice) ==
  /\ CallFrame
  /\ \E mbr \in ProbeChoices(unit) :
       Call(HBF_EXTSLICE, regs.C, unit, slice, regs.HL, mbr)

SysAlloc(size) ==
  CallFrame /\ Call(HBF_SYSALLOC, regs.C, regs.D, regs.E, size, MbrNone)

\* B = 0x60 belongs to no service class.
UnknownFunction ==
  CallFrame /\ Call(96, regs.C, regs.D, regs.E, regs.HL, MbrNone)

DiskFrame ==
  /\ ndio < MaxDioOps
  /\ ndio' = ndio + 1
  /\ UNCHANGED <<sigVars, memVars, regs, md_disks, heap_ptr, last_call, rt_pc, rt_data,
                 sysVars, ever_initialized, since_reset, conVars>>

LoadDisk(unit, img) ==
  /\ DiskFrame
  /\ disks' = loadDisk(disks, unit, img)
  /\ ext_seen' = ext_seen \ {unit}

CloseDisk(unit) ==
  /\ DiskFrame
  /\ disks[unit].is_open
  /\ disks' = closeDisk(disks, unit)
  /\ ext_seen' = ext_seen \ {unit}

DioNext ==
  \/ \E unit \in StatusUnits : DioStatus(unit)
  \/ \E unit \in DiskUnits : DioReset(unit)
  \/ \E unit \in DiskUnits, lba \in SeekLbas : DioSeek(unit, lba)
  \/ \E unit \in DiskUnits, buf \in Buffers, count \in Counts : DioRead(unit, buf, count)
  \/ \E unit \in DiskUnits, buf \in Buffers, count \in Counts : DioWrite(unit, buf, count)
  \/ \E unit \in DiskUnits, slice \in {0, 1} : ExtSlice(unit, slice)
  \/ \E size \in AllocSizes : SysAlloc(size)
  \/ UnknownFunction
  \/ \E unit \in DiskSlots, img \in {ImgPlain, ImgHd1k, ImgEmpty} : LoadDisk(unit, img)
  \/ \E unit \in DiskSlots : CloseDisk(unit)

SpecDio == InitDio /\ [][DioNext]_vars

-----------------------------------------------------------------------------
(* Specification of the seek, write, seek, read sequence on the RAM disk *)

\* ROM images whose HCB enables the RAM disk.
InitRt ==
  /\ SigInit
  /\ \E hcb \in {HcbStd, HcbTop} : MemInitWith(hcb)
  /\ DioInit

\* Inputs of the sequence.
RtBanks   == {0, 128}                          \* bank selected by the guest
RtUnits   == {0, 128}                          \* both name MD0
RtLbas    == {<<0, 0, 0>>, <<0, 0, 63>>, <<0, 0, 126>>, <<0, 0, 127>>,
              <<0, 0, 128>>, <<128, 0, 0>>}    \* <<D, E, HL>>
RtCounts  == {0, 1, 2}
RtWBufs   == {<<0, 32768>>, <<0, 0>>}          \* <<D, HL>>: 0x8000, 0x0000
RtRBufs   == {<<0, 32768>>, <<0, 0>>, <<0, 64512>>, <<143, 31744>>, <<128, 0>>}

\* The followed bytes of the n sectors of a guest buffer, as the guest (and
\* DIOWRITE) reads them.
BufBytes(m, buf, n) ==
  [k \in 1..(n * Len(SectorBytes)) |->
     read_from_bank(m, buf[1],
                    U16(buf[2] + ((k - 1) \div Len(SectorBytes)) * 512
                        + SectorBytes[((k - 1) % Len(SectorBytes)) + 1]))]

\* The guest's stores of the data into its buffer: byte i of sector s is
\* 16 * (s + 1) + i.
RECURSIVE FillBuffer(_, _, _)
FillBuffer(m, addr, k) ==
  IF k > 2 * Len(SectorBytes) THEN m
  ELSE LET sct == (k - 1) \div Len(SectorBytes)
           i == ((k - 1) % Len(SectorBytes)) + 1
       IN  FillBuffer(store_mem(m, U16(addr + sct * 512 + SectorBytes[i]),
                                16 * (sct + 1) + i),
                      addr, k + 1)

RtFrame(pc) ==
  /\ rt_pc = pc
  /\ rt_pc' = pc + 1
  /\ UNCHANGED <<sigVars, nops, rom_stored, last_op, ndio>>

RtSelect(bank_id) ==
  /\ RtFrame(0)
  /\ SetMem(select_bank(Mem, bank_id))
  /\ UNCHANGED <<regs, md_disks, disks, heap_ptr, last_call, rt_data, sysVars, obsVars, conVars>>

RtFill(buf) ==
  /\ RtFrame(1)
  /\ SetMem(FillBuffer(Mem, buf[2], 1))
  /\ rt_data' = [rt_data EXCEPT !.wbuf = buf]
  /\ UNCHANGED <<regs, md_disks, disks, heap_ptr, last_call, sysVars, obsVars, conVars>>

RtSeek(unit, lba) ==
  /\ RtFrame(2)
  /\ Call(HBF_DIOSEEK, unit, lba[1], lba[2], lba[3], MbrNone)
  /\ rt_data' = [rt_data EXCEPT !.unit = unit, !.lba = lba]

RtWrite(n) ==
  /\ RtFrame(3)
  /\ Call(HBF_DIOWRITE, rt_data.unit, rt_data.wbuf[1], n, rt_data.wbuf[2], MbrNone)
  /\ rt_data' = [rt_data EXCEPT !.n = n, !.bytes = BufBytes(Mem, rt_data.wbuf, n)]

RtSeekAgain ==
  /\ RtFrame(4)
  /\ Call(HBF_DIOSEEK, rt_data.unit, rt_data.lba[1], rt_data.lba[2], rt_data.lba[3], MbrNone)
  /\ UNCHANGED rt_data

RtRead(buf) ==
  /\ RtFrame(5)
  /\ Call(HBF_DIOREAD, rt_data.unit, buf[1], rt_data.n, buf[2], MbrNone)
  /\ rt_data' = [rt_data EXCEPT !.rbuf = buf]

RtNext ==
  \/ \E bank_id \in RtBanks : RtSelect(bank_id)
  \/ \E buf \in RtWBufs : RtFill(buf)
  \/ \E unit \in RtUnits, lba \in RtLbas : RtSeek(unit, lba)
  \/ \E n \in RtCounts : RtWrite(n)
  \/ RtSeekAgain
  \/ \E buf \in RtRBufs : RtRead(buf)

SpecRt == InitRt /\ [][RtNext]_vars

-----------------------------------------------------------------------------
(* Specification of the disk calls on a loaded hard disk image *)

\* Images: an MBR with the 0x55AA signature and no 0x2E partition on an image
\* of exactly 8 MiB; a 0x2E partition entry without the signature; a 0x2E
\* partition whose start LBA is 0xFFFFF000; and an image of 2 sectors and
\* 188 bytes.
MbrSig    == [sig |-> TRUE, has2E |-> FALSE, part_lba |-> <<0, 0>>]
MbrNoSig  == [sig |-> FALSE, has2E |-> TRUE, part_lba |-> <<0, 2048>>]
MbrHigh   == [sig |-> TRUE, has2E |-> TRUE, part_lba |-> <<65535, 61440>>]

Img8M     == [nsec |-> 16384, tail |-> 0, mbr |-> MbrSig,
              data |-> [k \in HdSectors |-> [i \in 1..Len(SectorBytes) |-> 208 + (k % 16) + i]]]
ImgNoSig  == [nsec |-> 2, tail |-> 0, mbr |-> MbrNoSig,
              data |-> [k \in {0, 1} |-> [i \in 1..Len(SectorBytes) |-> 208 + k + i]]]
ImgHigh   == [nsec |-> 2, tail |-> 0, mbr |-> MbrHigh,
              data |-> [k \in {0, 1} |-> [i \in 1..Len(SectorBytes) |-> 208 + k + i]]]
ImgOdd    == [nsec |-> 2, tail |-> 188, mbr |-> MbrNone,
              data |-> [k \in {0, 1, 2} |-> [i \in 1..Len(SectorBytes) |-> 208 + k + i]]]

\* The file of ImgPlain without write permission: it opens "r" only.
ImgReadOnly == [rw |-> FALSE] @@ ImgPlain

\* The images loaded from memory and the images opened as files.
MemImages  == {ImgPlain, ImgHd1k, Img8M, ImgNoSig, ImgHigh, ImgOdd}
FileImages == {ImgPlain, ImgOdd, ImgReadOnly}

\* What the stack can hold where sector_buf comes to lie.
StackJunk == {ZeroSector, [i \in 1..Len(SectorBytes) |-> 165]}

\* The emulator after romwbw_load_rom and the load of one image into slot 0
\* (romwbw_load_disk, or loadDiskFromFile), before the guest runs.
InitDisk ==
  /\ SigInit
  /\ MemInitWith(HcbStd)
  /\ \/ \E img \in MemImages :
          DioInitOn(FALSE, loadDisk([u \in DiskSlots |-> NoDisk], 0, img))
     \/ \E img \in FileImages :
          DioInitOn(FALSE, loadDiskFromFile([u \in DiskSlots |-> NoDisk], 0, img))

\* Inputs of the calls: MD0, MD1 (the ROM disk) and the hard disk of slot 0.
DkUnits  == {0, 1, 2}
DkLbas   == {0, 1, 63, 127}
DkCounts == {1, 3}

DkFrame ==
  /\ ndio < MaxDiskOps
  /\ ndio' = ndio + 1
  /\ UNCHANGED <<sigVars, nops, rom_stored, last_op, rt_pc, rt_data>>

DkSeek(unit, lba) ==
  DkFrame /\ Call(HBF_DIOSEEK, unit, 128, 0, lba, MbrNone)

\* The buffer of the transfers is 0x8000, in the guest's view.
DkRead(unit, count, junk) ==
  DkFrame /\ CallWith(HBF_DIOREAD, unit, 0, count, 32768, MbrNone, junk)

DkWrite(unit, count) ==
  DkFrame /\ Call(HBF_DIOWRITE, unit, 0, count, 32768, MbrNone)

DkMedia(unit) ==
  DkFrame /\ Call(HBF_DIOMEDIA, unit, regs.D, regs.E, regs.HL, MbrNone)

DkCap(unit) ==
  DkFrame /\ Call(HBF_DIOCAP, unit, regs.D, regs.E, regs.HL, MbrNone)

DkExtSlice(unit, slice) ==
  /\ DkFrame
  /\ \E mbr \in ProbeChoices(unit) :
       Call(HBF_EXTSLICE, regs.C, unit, slice, regs.HL, mbr)

\* The host replaces the image of slot 0.
DkLoad(img) ==
  /\ ndio < MaxDiskOps
  /\ ndio' = ndio + 1
  /\ disks' = loadDisk(disks, 0, img)
  /\ ext_seen' = ext_seen \ {0}
  /\ UNCHANGED <<sigVars, memVars, regs, md_disks, heap_ptr, last_call, rt_pc, rt_data,
                 sysVars, ever_initialized, since_reset, conVars>>

DkNext ==
  \/ \E unit \in DkUnits, lba \in DkLbas : DkSeek(unit, lba)
  \/ \E unit \in DkUnits, count \in DkCounts, junk \in StackJunk : DkRead(unit, count, junk)
  \/ \E unit \in DkUnits, count \in DkCounts : DkWrite(unit, count)
  \/ \E unit \in DkUnits : DkMedia(unit)
  \/ \E unit \in DkUnits : DkCap(unit)
  \/ \E slice \in {0, 1, 255} : DkExtSlice(2, slice)
  \/ \E img \in {ImgPlain, ImgHd1k} : DkLoad(img)

SpecDisk == InitDisk /\ [][DkNext]_vars

-----------------------------------------------------------------------------
(* Specification of the bank calls: SYSSETBNK, SYSSETCPY, SYSBNKCPY *)

InitSys == SigInit /\ MemInitWith(HcbStd) /\ DioInitWith(FALSE)

\* Inputs of the bank calls.  Every byte a copy reads or writes is one the
\* model tracks: 0x00FF..0x0100 and 0x01FF..0x0201 of a bank, and 0x81FF..0x8200,
\* which is 0x01FF..0x0200 of the common bank.
SysBankIds   == {0, 128, 129, 144}                 \* 0x00 0x80 0x81 0x90
SysStores    == {0, 274, 512}                      \* 0x0000 0x0112 0x0200
SysCpyBanks  == {<<128, 128>>, <<0, 129>>, <<129, 0>>}       \* <<source, destination>>
SysCpyCounts == {1, 2}
SysCpyAddrs  == {<<511, 512>>, <<512, 511>>, <<255, 33279>>} \* <<HL, DE>>
PeekBanks    == {1, 127, 129}                      \* 0x01 0x7F 0x81
PeekAddrs    == {511}                              \* 0x01FF
StrayBytes   == {0, 118}                           \* bytes of the heap after rom

\* What a bank call leaves alone.
SysFrame(b) ==
  /\ ndio < MaxSysOps
  /\ ndio' = ndio + 1
  /\ last_op' = <<"call", b>>
  /\ UNCHANGED <<sigVars, nops, rom_stored, rt_pc, rt_data>>

SysSetBnk(new_bank) ==
  /\ SysFrame(HBF_SYSSETBNK)
  /\ Call(HBF_SYSSETBNK, new_bank, regs.D, regs.E, regs.HL, MbrNone)

SysSetCpy(src_bank, dst_bank, count) ==
  /\ SysFrame(HBF_SYSSETCPY)
  /\ Call(HBF_SYSSETCPY, regs.C, dst_bank, src_bank, count, MbrNone)

SysBnkCpy(src_addr, dst_addr) ==
  /\ SysFrame(HBF_SYSBNKCPY)
  /\ Call(HBF_SYSBNKCPY, regs.C, dst_addr \div 256, dst_addr % 256, src_addr, MbrNone)

\* SYSPEEK of a byte of a bank; stray is what lies behind the rom array.
SysPeek(bank, addr, stray) ==
  LET d0 == [Machine EXCEPT !.regs.B = HBF_SYSPEEK, !.regs.D = bank, !.regs.HL = addr,
                            !.mem.stray = stray]
  IN  /\ SysFrame(HBF_SYSPEEK)
      /\ ~halted /\ ~polling
      /\ \E d1 \in {handlePortDispatch(d0, MbrNone)} : Commit(d1)
      /\ Observe(HBF_SYSPEEK, regs.C, bank, regs.E, addr)

\* A guest store instruction between two calls.
SysStore(addr, byte) ==
  /\ ndio < MaxSysOps
  /\ ndio' = ndio + 1
  /\ SetMem(store_mem(Mem, addr, byte))
  /\ last_op' = <<"store", addr, byte>>
  /\ UNCHANGED <<sigVars, nops, rom_stored, regs, md_disks, disks, heap_ptr,
                 last_call, rt_pc, rt_data, sysVars, obsVars, conVars>>

\* HBIOSDispatch::reset between two calls.
SysReset ==
  /\ ndio < MaxSysOps
  /\ Reset

SysNext ==
  \/ \E new_bank \in SysBankIds : SysSetBnk(new_bank)
  \/ \E bb \in SysCpyBanks, count \in SysCpyCounts : SysSetCpy(bb[1], bb[2], count)
  \/ \E aa \in SysCpyAddrs : SysBnkCpy(aa[1], aa[2])
  \/ \E bank \in PeekBanks, addr \in PeekAddrs, stray \in StrayBytes : SysPeek(bank, addr, stray)
  \/ \E addr \in SysStores : SysStore(addr, 1)
  \/ SysReset

SpecSys == InitSys /\ [][SysNext]_vars

-----------------------------------------------------------------------------
(* Specification of the console calls and of the calls without a case *)

MaxConOps == 3
MaxKeys   == 2

\* The CLI allows blocking (the default), the web build turns it off
\* (romwbw_web.cc:49).
InitCon ==
  /\ SigInit
  /\ MemInitWith(HcbStd)
  /\ \E blocking \in BOOLEAN : DioInitFor(FALSE, [u \in DiskSlots |-> NoDisk], blocking)

\* Inputs.  The function codes: CIOIN, CIOIST, VDAKST, VDAKRD, and codes no
\* handler has a case for: 0x07 (CIO), 0x15 DIOVERIFY, 0x22 (RTC), 0x3B
\* (DSKY), 0x43 VDADEV, 0x57 SNDDEVICE, 0x60 and 0xE8 (no class), 0xFD (SYS).
ConFuncs     == {HBF_CIOIN, HBF_CIOIST, HBF_VDAKST, HBF_VDAKRD}
NoCaseFuncs  == {7, 21, 34, 59, 67, 87, 96, 232, 253}
ConKeys      == {10, 65}                 \* line feed, 'A'
\* The guest's CALL: SP before it (0x8101) and the address after it (0x0103).
GuestCall    == [stack |-> 33025, ret |-> 259]
ConStack     == GuestCall.stack
ConRet       == GuestCall.ret

\* What a step of this specification leaves alone.
ConFrame ==
  /\ ~halted
  /\ ndio < MaxConOps
  /\ ndio' = ndio + 1
  /\ UNCHANGED <<sigVars, nops, rom_stored, rt_pc, rt_data>>

\* A character arrives on the host's standard input.
KeyPress(ch) ==
  /\ ~halted
  /\ Len(con_in) < MaxKeys
  /\ con_in' = Append(con_in, ch)
  /\ last_op' = <<"key", ch>>
  /\ UNCHANGED <<sigVars, rom, ram, shadow_bitmap, current_bank, nops, rom_stored,
                 regs, md_disks, disks, heap_ptr, ndio,
                 last_call, rt_pc, rt_data, sysVars, obsVars,
                 PC, SP, waiting_for_input, skip_ret, blocking_allowed,
                 polling, halted>>

\* The guest writes 0xFF to the signal port: trapping is on from then.
ConSignal ==
  /\ ~halted /\ ~polling
  /\ ~trapping_enabled
  /\ SignalPort(255)

\* The guest calls through the dispatch port.
ConPortCall(b) ==
  /\ ConFrame
  /\ ~checkTrap(PC)
  /\ Call(b, regs.C, regs.D, regs.E, regs.HL, MbrNone)
  /\ last_op' = <<"port", b, con_in>>

\* The handler wakes from its sleep inside CIOIN and runs on; the tail of
\* handlePortDispatch follows.
PollWake ==
  /\ ~halted
  /\ polling
  /\ emu_console_has_input(Machine)
  /\ \E d1 \in {handleCIO([Machine EXCEPT !.polling = FALSE])} :
        Commit([d1 EXCEPT !.skip_ret = FALSE])
  /\ last_op' = <<"wake", regs.B, con_in>>
  /\ UNCHANGED <<sigVars, nops, rom_stored, ndio, last_call, rt_pc, rt_data, obsVars>>

\* The guest executes CALL main_entry with B = b: the return address is on
\* the stack, PC is at the trap address, and the run loop calls
\* handleCall(getTrapType(PC)).
TrapCall(b, cmd) ==
  LET sp0 == U16(ConStack - 2)
      d0 == [Machine EXCEPT !.regs.B = b, !.pc = main_entry, !.sp = sp0,
                            !.mem = store_mem(store_mem(Mem, sp0, ConRet % 256),
                                              U16(sp0 + 1), ConRet \div 256),
                            !.cmd_str = cmd]
  IN  /\ ~halted /\ ~polling
      /\ checkTrap(main_entry)
      /\ ~checkTrap(PC)
      /\ \E d1 \in {handleCall(d0, getTrapType(main_entry), MbrNone)} : Commit(d1)
      /\ Observe(b, regs.C, regs.D, regs.E, regs.HL)

ConTrapCall(b) ==
  /\ ConFrame
  /\ TrapCall(b, <<>>)
  /\ last_op' = <<"trap", b, con_in>>

\* PC is still at the trap address: the run loop traps again.
ConRetry ==
  /\ ConFrame
  /\ ~polling
  /\ checkTrap(PC)
  /\ \E d1 \in {handleCall(Machine, getTrapType(PC), MbrNone)} : Commit(d1)
  /\ Observe(regs.B, regs.C, regs.D, regs.E, regs.HL)
  /\ last_op' = <<"retry", regs.B, con_in>>

ConNext ==
  \/ \E ch \in ConKeys : KeyPress(ch)
  \/ ConSignal
  \/ \E b \in ConFuncs \cup NoCaseFuncs : ConPortCall(b)
  \/ PollWake
  \/ \E b \in ConFuncs \cup NoCaseFuncs : ConTrapCall(b)
  \/ ConRetry

SpecCon == InitCon /\ [][ConNext]_vars

-----------------------------------------------------------------------------
(* Specification of SYSBOOT *)

MaxBootOps == 2

\* A 17 039 360 byte image, two slices of 16640 sectors and no partition
\* table, with a system image at the start of each slice: header words load,
\* end, entry and the first payload bytes.  The payload goes to 0x81FF and
\* 0x8200, which the model follows.
BootHd == [boot |-> (0     :> [load_addr |-> 33279, end_addr |-> 33281,
                               entry_addr |-> 33280, payload |-> <<17, 18, 19>>])
                 @@ (16640 :> [load_addr |-> 33279, end_addr |-> 33281,
                               entry_addr |-> 33024, payload |-> <<33, 34, 35>>])]
          @@ [nsec |-> 33280, tail |-> 0, mbr |-> MbrNone,
              data |-> [k \in HdSectors |-> [i \in 1..Len(SectorBytes) |-> 208 + (k % 16) + i]]]

\* The disks attached before the boot: none, the image in memory or as a
\* file in slot 0, the image in slot 15 only, a 1 KiB image in slot 0.
BootDisks ==
  LET none == [u \in DiskSlots |-> NoDisk] IN
  {none,
   loadDisk(none, 0, BootHd),
   loadDiskFromFile(none, 0, BootHd),
   loadDisk(none, 15, BootHd),
   loadDisk(none, 0, ImgPlain)}

\* A ROM with memory disks in its HCB, or without.
InitBoot ==
  /\ SigInit
  /\ \E hcb \in {HcbStd, HcbNone} : MemInitWith(hcb)
  /\ \E dks \in BootDisks : DioInitOn(FALSE, dks)

\* The commands: "", " ", "0", "HD0", "hd0:1", "HD0:1", "MD0", "HD15", "1".
BootCmds == {<<>>, <<32>>, <<48>>, <<72, 68, 48>>, <<104, 100, 48, 58, 49>>,
             <<72, 68, 48, 58, 49>>, <<77, 68, 48>>, <<72, 68, 49, 53>>, <<49>>}

BootFrame ==
  /\ ndio < MaxBootOps
  /\ ndio' = ndio + 1
  /\ UNCHANGED <<sigVars, nops, rom_stored, rt_pc, rt_data>>

\* SYSBOOT through the dispatch port.
BootPort(cmd) ==
  /\ BootFrame
  /\ ~checkTrap(PC)
  /\ CallCmd(HBF_SYSBOOT, regs.C, regs.D, regs.E, regs.HL, MbrNone, ZeroSector, cmd)
  /\ last_op' = <<"port", HBF_SYSBOOT, cmd>>

\* SYSBOOT by CALL main_entry.
BootTrap(cmd) ==
  /\ BootFrame
  /\ TrapCall(HBF_SYSBOOT, cmd)
  /\ last_op' = <<"trap", HBF_SYSBOOT, cmd>>

BootNext ==
  \/ ConSignal
  \/ \E cmd \in BootCmds : BootPort(cmd)
  \/ \E cmd \in BootCmds : BootTrap(cmd)

SpecBoot == InitBoot /\ [][BootNext]_vars

-----------------------------------------------------------------------------
(* Specification of the start of the web build: the disks are attached,
   romwbw_start populates the HCB, the guest selects banks *)

MaxHcbOps == 4

InitHcb ==
  /\ SigInit
  /\ \E hcb \in {HcbStd, HcbNone} : MemInitOn(hcb, HcbOffsets)
  /\ DioInitWith(FALSE)

\* romwbw_start has run.
Started == last_op[1] \in {"start", "run"}

HcbFrame ==
  /\ ndio < MaxHcbOps
  /\ ndio' = ndio + 1
  /\ UNCHANGED <<sigVars, nops, rom_stored, rt_pc, rt_data>>

\* romwbw_load_disk before the start.
HcbLoad(unit, img) ==
  /\ HcbFrame
  /\ ~Started
  /\ disks' = loadDisk(disks, unit, img)
  /\ last_op' = <<"attach", unit>>
  /\ UNCHANGED <<rom, ram, shadow_bitmap, current_bank, regs, md_disks, heap_ptr,
                 last_call, sysVars, obsVars, conVars>>

\* romwbw_start: populateDiskUnitTable, the registers cleared, ROM bank 0
\* selected, the waiting flag cleared.
HcbStart ==
  /\ HcbFrame
  /\ ~Started
  /\ \E d1 \in {populateDiskUnitTable(Machine)} :
        SetMem(select_bank(d1.mem, 0))
  /\ regs' = [regs EXCEPT !.A = 0, !.Z = FALSE, !.CY = FALSE, !.B = 0, !.C = 0,
                          !.D = 0, !.E = 0, !.HL = 0]
  /\ PC' = 0
  /\ SP' = 0
  /\ waiting_for_input' = FALSE
  /\ last_op' = <<"start">>
  /\ UNCHANGED <<md_disks, disks, heap_ptr, last_call, sysVars, obsVars,
                 skip_ret, blocking_allowed, con_in, polling, halted>>

\* The guest calls SYSSETBNK.
HcbSetBnk(new_bank) ==
  /\ HcbFrame
  /\ Started
  /\ Call(HBF_SYSSETBNK, new_bank, regs.D, regs.E, regs.HL, MbrNone)
  /\ last_op' = <<"run", new_bank>>

HcbNext ==
  \/ \E unit \in DiskSlots, img \in {ImgPlain, ImgHd1k} : HcbLoad(unit, img)
  \/ HcbStart
  \/ \E new_bank \in {0, 128, 129} : HcbSetBnk(new_bank)

SpecHcb == InitHcb /\ [][HcbNext]_vars

-----------------------------------------------------------------------------
(* Claims about trap detection and the signal port *)

\* The trap condition as the specification words it.
TrapExpected(enabled, entry, addrs, pc) ==
  enabled /\ (\/ pc = entry
              \/ pc = 65529
              \/ \E h \in DOMAIN addrs : addrs[h] # 0 /\ pc = addrs[h])

\* C1 (shared dispatcher only): checkTrap(pc) is true exactly when trapping
\* is enabled and pc is the main entry, 0xFFF9 or a non-zero registered
\* dispatch address.
C1_DispatcherTrapIff ==
  \A pc \in TrapPCs :
    checkTrap(pc) <=> TrapExpected(trapping_enabled, main_entry, dispatch, pc)

\* C1: a trap fires at PC if and only if trapping is enabled and PC is the
\* main entry address, the bank-call address 0xFFF9 or a non-zero registered
\* handler address; stated of both trap checks of the repository, the shared
\* dispatcher's checkTrap and the CLI front end's check_hbios_trap.
C1_TrapIff ==
  /\ C1_DispatcherTrapIff
  /\ \A pc \in TrapPCs :
       check_hbios_trap(pc) <=>
         TrapExpected(hbios_trapping_enabled, 65520, cli_dispatch_addr, pc)

\* C3: a registration sequence started in the idle state is back in the idle
\* state after exactly the declared number of following bytes (8 after 0x02,
\* 2 after 0x10..0x15) and not before: the machine is idle exactly when no
\* declared byte is outstanding.
C3_IdleAfterDeclaredBytes ==
  (signal_state = 0) <=> (reg_left = 0)

\* C4: a reset leaves the machine idle, the six dispatch addresses 0 and
\* trapping disabled, and as long as no 0xFF byte has arrived in the idle
\* state since the reset, trapping is disabled and no PC traps.
C4_DisabledUntilFF ==
  /\ [][Reset => (/\ signal_state' = 0
                  /\ \A h \in 0..5 : dispatch'[h] = 0
                  /\ ~trapping_enabled')]_vars
  /\ [](~ff_idle => (~trapping_enabled /\ \A pc \in TrapPCs : ~checkTrap(pc)))

\* C4 witness: 0xFF has arrived as the high byte of a registered address,
\* never in the idle state, and trapping is still disabled.
C4_Witness ==
  /\ ~ff_idle
  /\ ~trapping_enabled
  /\ \E h \in 0..5 : dispatch[h] >= 65280
  /\ signal_state = 0


-----------------------------------------------------------------------------
(* Claims about the banked memory, checked under SpecMem *)

\* CPU addresses whose cells the model tracks, below and above 0x8000.
LowAddrs  == {0, 512, 32255, 32256, 32258, 32259, 32512, 32514, 32515,
              32763, 32764, 32765, 32766, 32767}
HighAddrs == {BANK_BOUNDARY + o : o \in LowAddrs}

\* The ident ranges as the specification lists them.
IdentRanges == (65024..65026) \cup (65280..65282) \cup (65532..65533)

StoreFetchApplies(A) ==
  \/ (A >= 32768 /\ A \notin IdentRanges)
  \/ (A < 32768 /\ current_bank >= 128)

\* C5: in every reachable state, for every address A that is >= 0x8000 and
\* outside the ident ranges, or < 0x8000 while a RAM bank is selected,
\* store(A, x) immediately followed by fetch(A) returns x; and the last store
\* the guest actually made to such an address is what fetch returns.
C5_StoreThenFetch ==
  /\ \A A \in LowAddrs \cup HighAddrs, x \in StoreBytes :
       StoreFetchApplies(A) => fetch_mem(store_mem(Mem, A, x), A) = x
  /\ (last_op[1] = "store" /\ StoreFetchApplies(last_op[2]))
       => fetch_mem(Mem, last_op[2]) = last_op[3]

\* A store below 0x8000 under RAM bank 0x81 that fetch returns, while the
\* same offset of RAM bank 0x80 holds something else.
C5_Witness ==
  /\ last_op[1] = "store" /\ last_op[2] < 32768
  /\ current_bank = 129
  /\ fetch_mem(Mem, last_op[2]) = last_op[3]
  /\ RamAt(Mem, last_op[2]) # last_op[3]

\* C6: while a ROM bank is selected, for every address A < 0x8000 a store(A, x)
\* makes the following fetch(A) return x, and every address below 0x8000 never
\* stored to under a ROM bank selection returns the byte of the selected ROM
\* bank.
C6_ShadowRead ==
  current_bank < 128 =>
    /\ \A A \in LowAddrs, x \in StoreBytes :
         fetch_mem(store_mem(Mem, A, x), A) = x
    /\ (last_op[1] = "store" /\ last_op[2] < 32768)
         => fetch_mem(Mem, last_op[2]) = last_op[3]
    /\ \A A \in LowAddrs \ rom_stored :
         fetch_mem(Mem, A) = rom[(current_bank % 16) * BANK_SIZE + A]

\* A store under ROM bank 0x01 is read back, while another address, whose
\* RAM cell the guest changed through SYSPOKE, still reads the ROM byte.
C6_Witness ==
  /\ current_bank = 1
  /\ last_op[1] = "store" /\ last_op[2] < 32768
  /\ fetch_mem(Mem, last_op[2]) = last_op[3]
  /\ \E A \in LowAddrs \ rom_stored :
       /\ RamAt(Mem, A) = 1
       /\ fetch_mem(Mem, A) = 225

\* RAM bank ids: two ids name distinct banks when their low nibbles differ.
RamIds == {b \in SelectIds : b >= 128}

BankSequence(m, R1, R2, A, x, y) ==
  fetch_mem(select_bank(store_mem(select_bank(store_mem(select_bank(m, R1),
            A, x), R2), A, y), R1), A)

\* C7: from every reachable state, for every address A < 0x8000 and distinct
\* RAM banks R1 and R2, select_bank(R1); store(A, x); select_bank(R2);
\* store(A, y); select_bank(R1); fetch(A) yields x.
C7_BanksIndependent ==
  \A A \in {0, 32256, 32767}, R1 \in RamIds, R2 \in RamIds,
     x \in StoreBytes, y \in StoreBytes :
    (R1 % 16) # (R2 % 16) => BankSequence(Mem, R1, R2, A, x, y) = x

\* The sequence as the guest ran it: x stored under 0x81, y under 0x80 (id
\* 0x90 is the same bank), 0x81 selected again, and fetch yields x.
C7_Witness ==
  /\ last_op = <<"select", 129>>
  /\ \E A \in LowAddrs :
       /\ ram[BANK_SIZE + A] = 1
       /\ ram[A] = 2
       /\ fetch_mem(Mem, A) = 1

\* C8: no guest write path changes a byte of the ident ranges of the common
\* bank: they hold what setup_hbios_ident wrote, in every reachable state.
C8_IdentNeverChanges ==
  \A p \in DOMAIN IdentBytes \cap DOMAIN ram : ram[p] = IdentBytes[p]


-----------------------------------------------------------------------------
(* Claims about the service calls, checked under SpecDio *)

\* C2: on return from every service call, whatever the flags were before,
\* the carry flag is set if and only if bit 7 of the result in A is set; the
\* same of the result epilogue of the CLI front end, for every result code
\* and every flags on entry.
C2_CarryIffBit7 ==
  /\ last_call.B # 0 => (regs.CY <=> regs.A >= 128)
  /\ \A result \in {0, 1, 127, 128, 246, 252, 255}, z \in BOOLEAN, cy \in BOOLEAN :
       LET r == cli_set_result([regs EXCEPT !.Z = z, !.CY = cy], result)
       IN  r.CY <=> result >= 128

\* The routing table of the specification, first match winning.
RouteTable(unit) ==
  IF unit >= 0 /\ unit <= 1 THEN <<"md", unit>>
  ELSE IF unit >= 2 /\ unit <= 17 THEN <<"hd", unit - 2>>
  ELSE IF unit >= 128 /\ unit <= 143
       THEN <<"md", IF unit % 16 < 1 THEN unit % 16 ELSE 1>>
  ELSE IF unit >= 144 /\ unit <= 159 THEN <<"hd", unit % 16>>
  ELSE IF unit >= 192 /\ unit <= 207 THEN <<"md", 1>>
  ELSE <<"none", 0>>

\* The device of a unit: that of the table, unless it is a disabled memory
\* disk or a closed hard-disk slot.
RouteDevice(unit) ==
  LET r == RouteTable(unit) IN
  IF r[1] = "md" /\ md_disks[r[2]].is_enabled THEN r
  ELSE IF r[1] = "hd" /\ r[2] \in DOMAIN disks /\ disks[r[2]].is_open THEN r
  ELSE <<"none", 0>>

\* The machine with the guest's registers loaded for a call.
WithRegs(b, c, dd, e, hl) ==
  [Machine EXCEPT !.regs = [A |-> regs.A, Z |-> regs.Z, CY |-> regs.CY,
                            B |-> b, C |-> c, D |-> dd, E |-> e, HL |-> hl],
                  !.skip_ret = TRUE]

\* C9: for every unit number 0..255, DIO and EXTSLICE act on the device the
\* routing table names (DIOSEEK moves that device's position and no other;
\* EXTSLICE reports a memory disk, or probes that hard disk and no other),
\* and on a unit with no device DIOSTATUS returns no-unit, DIOSEEK moves
\* nothing and EXTSLICE touches no disk.
C9_UnitRouting ==
  \A unit \in 0..255 :
    LET dev == RouteDevice(unit)
        st == handleDIO(WithRegs(HBF_DIOSTATUS, unit, 0, 0, 0))
        sk == handleDIO(WithRegs(HBF_DIOSEEK, unit, 0, 0, 5))
        ex == handleEXT(WithRegs(HBF_EXTSLICE, 0, unit, 0, 0), MbrNone)
    IN  CASE dev[1] = "md" ->
               /\ st.regs.A = 0
               /\ sk.md_disks = [md_disks EXCEPT ![dev[2]].current_lba = 5]
               /\ sk.disks = disks
               /\ ex.regs.C \in {1, 2} /\ ex.disks = disks
          [] dev[1] = "hd" ->
               /\ st.regs.A = 0
               /\ sk.disks = [disks EXCEPT ![dev[2]].current_lba = 5]
               /\ sk.md_disks = md_disks
               /\ ex.regs.C \in {4, 10}
               /\ ex.disks = [disks EXCEPT ![dev[2]] = ex.disks[dev[2]]]
               /\ ex.disks[dev[2]].partition_probed
          [] OTHER ->
               /\ st.regs.A = HBR_NOUNIT
               /\ sk.regs.A = HBR_NOUNIT
               /\ sk.md_disks = md_disks /\ sk.disks = disks
               /\ ex.disks = disks /\ ex.md_disks = md_disks

\* DIOSTATUS on unit 0x9F found the image loaded into slot 15, while slot 0
\* is closed and unit 2 has no device.
C9_Witness ==
  /\ last_call.B = HBF_DIOSTATUS /\ last_call.C = 159
  /\ regs.A = 0
  /\ disks[15].is_open /\ ~disks[0].is_open


-----------------------------------------------------------------------------
(* Claims about the RAM disk round trip, checked under SpecRt *)

\* The LBA DIOSEEK was given (bit 31 is the LBA-mode flag).
RtLba == (rt_data.lba[1] % 128) * 16777216 + rt_data.lba[2] * 65536 + rt_data.lba[3]

\* The write-protected physical ranges of RAM: the DEVMAP cells and the
\* ident ranges of the common bank.
ProtectedPhys == (493176..493179) \cup (523776..523778) \cup (524032..524034)
                   \cup (524284..524285)

\* The physical RAM the n sectors of the disk from RtLba occupy.
RtDiskPhys ==
  UNION {LET l == RtLba + k
             b == (md_disks[0].start_bank + l \div 64) % 16
         IN  (b * BANK_SIZE + (l % 64) * 512)..(b * BANK_SIZE + (l % 64) * 512 + 511)
         : k \in 0..(rt_data.n - 1)}

\* The physical RAM the n sectors of a guest buffer occupy.
BufPhys(buf) ==
  {LET a == U16(buf[2] + k)
   IN  IF a >= 32768 THEN 15 * BANK_SIZE + (a - 32768)
       ELSE IF buf[1] >= 128 THEN (buf[1] % 16) * BANK_SIZE + a
       ELSE IF current_bank >= 128 THEN (current_bank % 16) * BANK_SIZE + a
       ELSE a
   : k \in 0..(rt_data.n * 512 - 1)}

\* The RAM disk's banks, as physical RAM.
RtDiskBanksPhys ==
  UNION {LET b == (md_disks[0].start_bank + k) % 16
         IN  (b * BANK_SIZE)..(b * BANK_SIZE + BANK_SIZE - 1)
         : k \in 0..(md_disks[0].num_banks - 1)}

RtBufEqualsData ==
  BufBytes(Mem, rt_data.rbuf, rt_data.n) = rt_data.bytes

\* C10 as stated: for any LBA L and count n, after DIOSEEK(m, L);
\* DIOWRITE(m, data, n); DIOSEEK(m, L); DIOREAD(m, buf, n) on the RAM disk,
\* buf equals data.
C10_RoundTripAny ==
  rt_pc = 6 => RtBufEqualsData

\* C10 amended: the same, when the n sectors from L lie inside the disk and
\* hold no write-protected byte, both guest buffers lie outside the disk's
\* banks, and buf covers no write-protected byte.
C10_RoundTripInside ==
  (/\ rt_pc = 6
   /\ RtLba + rt_data.n <= total_sectors(md_disks[0])
   /\ RtDiskPhys \cap ProtectedPhys = {}
   /\ BufPhys(rt_data.rbuf) \cap ProtectedPhys = {}
   /\ BufPhys(rt_data.rbuf) \cap RtDiskBanksPhys = {}
   /\ BufPhys(rt_data.wbuf) \cap RtDiskBanksPhys = {})
  => RtBufEqualsData

\* Two sectors across the bank boundary (LBA 63 and 64) written from the
\* filled buffer and read back into another buffer.
C10_Witness ==
  /\ rt_pc = 6
  /\ RtLba = 63 /\ rt_data.n = 2
  /\ rt_data.bytes = <<17, 18, 33, 34>>
  /\ rt_data.rbuf # rt_data.wbuf
  /\ BufPhys(rt_data.rbuf) \cap RtDiskBanksPhys = {}
  /\ BufPhys(rt_data.wbuf) \cap RtDiskBanksPhys = {}
  /\ RtBufEqualsData

-----------------------------------------------------------------------------
(* Claims about the disk calls, checked under SpecDisk *)

\* The device of a unit that has one, its position, and the number of
\* complete 512-byte blocks it holds.
UnitHasDevice(unit) == RouteDevice(unit)[1] # "none"

UnitPos(mds, dks, unit) ==
  LET dev == RouteDevice(unit)
  IN  IF dev[1] = "md" THEN mds[dev[2]].current_lba ELSE dks[dev[2]].current_lba

UnitBlocks(unit) ==
  LET dev == RouteDevice(unit)
  IN  IF dev[1] = "md" THEN md_disks[dev[2]].num_banks * 64
      ELSE (disks[dev[2]].nsec * 512 + disks[dev[2]].tail) \div 512

\* C11: for every kind of disk, a DIOREAD of N blocks issued when
\* current_lba + N exceeds the disk's sectors returns success, with E the
\* number of complete 512-byte blocks between current_lba and the end of
\* the disk, and advances current_lba by exactly that number.
C11_PartialRead ==
  \A unit \in DkUnits, N \in 0..4 :
    (UnitHasDevice(unit) /\ UnitPos(md_disks, disks, unit) + N > UnitBlocks(unit)) =>
      LET cur == UnitPos(md_disks, disks, unit)
          avail == IF cur >= UnitBlocks(unit) THEN 0 ELSE UnitBlocks(unit) - cur
          r == handleDIO(WithRegs(HBF_DIOREAD, unit, 0, N, 32768))
      IN  /\ r.regs.A = HBR_SUCCESS
          /\ r.regs.E = avail
          /\ UnitPos(r.md_disks, r.disks, unit) = cur + avail

\* The unit numbers the routing table resolves to the ROM disk.
RomDiskUnits == {unit \in 0..255 : RouteDevice(unit) = <<"md", 1>> /\ md_disks[1].is_rom}

\* C12: DIOWRITE to the ROM memory disk, through every unit number that
\* resolves to it and for every block count and buffer, returns the
\* read-only code with E = 0 and changes neither a disk position nor a byte
\* of memory or of a disk.
C12_RomDiskReadOnly ==
  \A unit \in RomDiskUnits, count \in {0, 1, 2, 255}, buf \in Buffers :
    LET r == handleDIO(WithRegs(HBF_DIOWRITE, unit, buf[1], count, buf[2]))
    IN  /\ r.regs.A = HBR_READONLY
        /\ r.regs.E = 0
        /\ r.md_disks = md_disks
        /\ r.disks = disks
        /\ r.mem = Mem

\* The guest sought sector 63 of the ROM disk and asked to write 3 blocks:
\* read-only, none written, position still 63.
C12_Witness ==
  /\ last_call.B = HBF_DIOWRITE /\ last_call.C = 1 /\ last_call.E = 3
  /\ regs.A = HBR_READONLY /\ regs.E = 0
  /\ md_disks[1].is_rom /\ md_disks[1].current_lba = 63

\* a + n modulo 2^32 as <<high 16 bits, low 16 bits>>, computed on the low
\* 30 bits and the top 2 bits of a.
Sum32(a, n) ==
  LET low30 == (a[1] % 16384) * 65536 + a[2] + n
      top2 == (a[1] \div 16384 + low30 \div 1073741824) % 4
  IN  <<top2 * 16384 + (low30 % 1073741824) \div 65536, low30 % 65536>>

\* C13: for an open hard disk with probed partition_base_lba and slice_size
\* and every slice S in 0..255, EXTSLICE(unit, S) returns the 32-bit LBA
\* partition_base_lba + S * slice_size, DE the high and HL the low 16 bits.
C13_SliceLba ==
  (disks[0].is_open /\ disks[0].partition_probed) =>
    \A S \in 0..255 :
      LET r == handleEXT(WithRegs(HBF_EXTSLICE, 0, 2, S, 0), MbrNone)
          want == Sum32(disks[0].partition_base_lba, S * disks[0].slice_size)
      IN  /\ r.regs.A = HBR_SUCCESS
          /\ r.regs.D * 256 + r.regs.E = want[1]
          /\ r.regs.HL = want[2]

\* EXTSLICE of slice 255 on the image whose partition starts at 0xFFFFF000:
\* 0xFFFFF000 + 255 * 16384 is 0x003FB000 in 32 bits.
C13_Witness ==
  /\ last_call.B = HBF_EXTSLICE /\ last_call.D = 2 /\ last_call.E = 255
  /\ disks[0].partition_base_lba = <<65535, 61440>>
  /\ regs.D = 0 /\ regs.E = 63 /\ regs.HL = 45056

\* The classification the specification gives for a first sector and a size.
Classify(mbr, size) ==
  IF mbr.sig /\ mbr.has2E
  THEN [is_hd1k |-> TRUE, base |-> mbr.part_lba, slice_size |-> 16384, media |-> 10]
  ELSE IF size = 8388608
  THEN [is_hd1k |-> TRUE, base |-> <<0, 0>>, slice_size |-> 16384, media |-> 10]
  ELSE [is_hd1k |-> FALSE, base |-> <<0, 0>>, slice_size |-> 16640, media |-> 4]

\* C14: the first EXTSLICE on an open hard disk classifies it by its first
\* sector and its size: a 0x55AA signature and a type 0x2E partition make
\* it hd1k at that partition's start LBA; otherwise a size of exactly
\* 8,388,608 bytes makes it hd1k at LBA 0; otherwise it is hd512 at LBA 0
\* with slices of 16640 sectors; hd1k has slices of 16384 sectors and media
\* id 0x0A, hd512 media id 0x04.
C14_FirstProbeClassifies ==
  (disks[0].is_open /\ 0 \notin ext_seen) =>
    \A mbr \in ProbeChoices(2) :
      LET r == handleEXT(WithRegs(HBF_EXTSLICE, 0, 2, 0, 0), mbr)
          dk == r.disks[0]
          want == Classify(mbr, disks[0].size)
      IN  /\ dk.is_hd1k = want.is_hd1k
          /\ dk.partition_base_lba = want.base
          /\ dk.slice_size = want.slice_size
          /\ r.regs.C = want.media

\* The probe results of a disk slot.
ProbeResult(dk) ==
  <<dk.partition_probed, dk.partition_base_lba, dk.slice_size, dk.is_hd1k>>

\* C15: an EXTSLICE on a hard disk that EXTSLICE was called on before, since
\* its image was loaded, does not probe: it leaves the probe results as they
\* are and returns the media id and the slice LBA they give, whatever was
\* written to the disk in between.
C15_ProbeOnce ==
  [][(/\ 0 \in ext_seen /\ 0 \in ext_seen'
      /\ ndio' = ndio + 1
      /\ last_call'.B = HBF_EXTSLICE /\ last_call'.D = 2)
     => (/\ ProbeResult(disks'[0]) = ProbeResult(disks[0])
         /\ regs'.C = (IF disks[0].is_hd1k THEN 10 ELSE 4)
         /\ <<regs'.D * 256 + regs'.E, regs'.HL>> =
              Sum32(disks[0].partition_base_lba, last_call'.E * disks[0].slice_size))]_vars

\* EXTSLICE probed the disk as hd512, the guest then wrote sector 0, and a
\* second EXTSLICE still reports hd512.
C15_Witness ==
  /\ last_call.B = HBF_EXTSLICE /\ last_call.D = 2
  /\ ndio = 3
  /\ 0 \in ext_seen
  /\ disks[0].partition_probed /\ disks[0].mbr_written
  /\ ~disks[0].is_hd1k /\ regs.C = 4

\* C16: DIOMEDIA returns in E the media id of the resolved unit: MDRAM for
\* the RAM disk, MDROM for the ROM disk, HDNEW (0x0A) for a hard disk in
\* hd1k layout and HD (0x04) for any other hard disk.
C16_MediaId ==
  \A unit \in DkUnits :
    UnitHasDevice(unit) =>
      LET dev == RouteDevice(unit)
          r == handleDIO(WithRegs(HBF_DIOMEDIA, unit, 0, 0, 0))
      IN  r.regs.E = (IF dev[1] = "md"
                      THEN (IF md_disks[dev[2]].is_rom THEN 1 ELSE 2)
                      ELSE (IF disks[dev[2]].is_hd1k THEN 10 ELSE 4))

\* The sector count DIOCAP reports for a unit.
UnitCapacity(unit) ==
  LET dev == RouteDevice(unit)
  IN  IF dev[1] = "md" THEN md_disks[dev[2]].num_banks * 64
      ELSE disks[dev[2]].size \div 512

\* C17: DIOCAP returns the unit's total sector count with DE the high 16
\* bits and HL the low 16 bits, so that DIOSEEK with the DE and HL DIOCAP
\* returned sets current_lba to the total sector count.
C17_CapacitySplit ==
  \A unit \in DkUnits :
    UnitHasDevice(unit) =>
      LET cap == handleDIO(WithRegs(HBF_DIOCAP, unit, 0, 0, 0))
          sk == handleDIO([cap EXCEPT !.regs.B = HBF_DIOSEEK, !.regs.C = unit])
      IN  /\ cap.regs.D * 256 + cap.regs.E = UnitCapacity(unit) \div 65536
          /\ cap.regs.HL = UnitCapacity(unit) % 65536
          /\ UnitPos(sk.md_disks, sk.disks, unit) = UnitCapacity(unit)


-----------------------------------------------------------------------------
(* Claims about the bank calls, checked under SpecSys *)

\* Bank ids SYSSETBNK is examined on: ROM banks, the RAM banks the model
\* tracks, and ids with bit 7 and one of bits 4..6 set.
SetBnkIds == {0, 1, 127, 128, 129, 130, 142, 143, 144, 145, 159, 208, 240, 255}

\* C18: SYSSETBNK(new) on a RAM bank id 0x80..0x8F not selected by SYSSETBNK
\* before leaves bytes 0x0000..0x01FF of that bank equal to those of ROM bank
\* 0, byte 0x0112 being 0x00, marks the bank initialized, selects it and
\* returns in C the bank selected before the call; for every other id it only
\* selects the bank and returns the bank selected before in C.
C18_SetBnkInitializes ==
  \A new \in SetBnkIds :
    LET d == handleSYS(WithRegs(HBF_SYSSETBNK, new, regs.D, regs.E, regs.HL))
        first == new \in 128..143 /\ (new % 16) \notin since_reset
    IN  /\ d.mem.current_bank = new
        /\ d.regs.C = current_bank
        /\ IF first
           THEN /\ \A i \in 1..Len(PageZeroBytes) :
                     read_bank(d.mem, new, PageZeroBytes[i])
                       = IF PageZeroBytes[i] = 274 THEN 0
                         ELSE read_bank(Mem, 0, PageZeroBytes[i])
                /\ (new % 16) \in d.initialized_ram_banks
           ELSE /\ d.mem.ram = ram
                /\ d.mem.rom = rom
                /\ d.mem.shadow_bitmap = shadow_bitmap
                /\ d.initialized_ram_banks = initialized_ram_banks

\* SYSSETBNK(0x81) was called while bank 0x80 was selected: bank 0x81 holds
\* the page zero of ROM bank 0 and is marked and selected.
C18_Witness ==
  /\ last_op = <<"call", HBF_SYSSETBNK>>
  /\ last_call.C = 129
  /\ regs.C = 128
  /\ current_bank = 129
  /\ 1 \in initialized_ram_banks
  /\ ram[BANK_SIZE] = 224
  /\ ram[BANK_SIZE + 274] = 0

\* The step is the call SYSSETBNK(R).
SetBnkStep(R) ==
  /\ ndio' = ndio + 1
  /\ last_op' = <<"call", HBF_SYSSETBNK>>
  /\ last_call'.C = R

\* Bytes 0x0000..0x01FF of RAM bank R in the RAM array rm.
PageZero(rm, R) ==
  [i \in 1..Len(PageZeroBytes) |-> rm[(R % 16) * BANK_SIZE + PageZeroBytes[i]]]

\* C19 as stated: once SYSSETBNK has selected RAM bank R, every later
\* SYSSETBNK(R) leaves bytes 0x0000..0x01FF of R as they are, whatever
\* happened in between.
C19_NeverCopiedAgain ==
  [][\A R \in {128, 129} :
       (SetBnkStep(R) /\ (R % 16) \in ever_initialized)
         => PageZero(ram', R) = PageZero(ram, R)]_vars

\* C19 amended: once SYSSETBNK has selected RAM bank R, every later
\* SYSSETBNK(R) leaves bytes 0x0000..0x01FF of R as they are, as long as the
\* dispatcher was not reset since that selection.
C19_NoCopyUntilReset ==
  [][\A R \in {128, 129} :
       (SetBnkStep(R) /\ (R % 16) \in since_reset)
         => PageZero(ram', R) = PageZero(ram, R)]_vars

\* Bank 0x80 was selected, the guest stored 1 at 0x0000, and SYSSETBNK(0x80)
\* was called again: the byte is still 1.
C19_Witness ==
  /\ last_op = <<"call", HBF_SYSSETBNK>>
  /\ last_call.C = 128
  /\ regs.C = 128
  /\ 0 \in since_reset
  /\ ram[0] = 1

\* The step is a call of SYSBNKCPY.
BnkCpyStep ==
  /\ ndio' = ndio + 1
  /\ last_op' = <<"call", HBF_SYSBNKCPY>>

\* The byte at (bank, addr), an address >= 0x8000 being taken in the common
\* bank at addr - 0x8000.
PhysByte(m, bank, addr) ==
  IF addr >= BANK_BOUNDARY THEN read_bank(m, 143, addr - BANK_BOUNDARY)
  ELSE read_bank(m, bank, addr)

\* C20: after SYSSETCPY(src = A, dst = B, count = N) and SYSBNKCPY(S, D),
\* for every i < N the byte at (B, D + i) is the byte that was at (A, S + i)
\* when SYSBNKCPY was called, for all banks, addresses and counts,
\* overlapping ranges included.
C20_BankCopy ==
  [][BnkCpyStep =>
       \A i \in 0..(bnkcpy_count - 1) :
         PhysByte(Mem', bnkcpy_dst_bank, U16(last_call'.D * 256 + last_call'.E + i))
           = PhysByte(Mem, bnkcpy_src_bank, U16(last_call'.HL + i))]_vars

-----------------------------------------------------------------------------
(* Claims about the heap, checked under SpecDio *)

\* Sizes SYSALLOC is examined on, around every boundary the reachable heap
\* pointers 0x0200, 0x0300, 0x0400 and 0x8000 have with 0x8000.
HeapSizes == {0, 1, 255, 256, 257, 31743, 31744, 31745, 31999, 32000, 32001,
              32255, 32256, 32257, 32767, 32768, 65279, 65280, 65535}

\* The machine d with the guest's registers loaded for SYSALLOC(size).
AllocCall(d, size) == [d EXCEPT !.regs.B = HBF_SYSALLOC, !.regs.HL = size]

\* C21: after SYSALLOC(s) has returned a non-zero pointer p, the SYSALLOC(t)
\* that follows it returns p + s if and only if p + s + t <= 0x8000, for all
\* sizes s and t.
C21_AllocContiguous ==
  \A s \in HeapSizes, t \in HeapSizes :
    LET d1 == handleSYS(AllocCall(Machine, s))
        p  == d1.regs.HL
        d2 == handleSYS(AllocCall(d1, t))
    IN  p # 0 => ((d2.regs.HL = p + s) <=> (p + s + t <= 32768))

\* SYSALLOC(0x0100) was called twice: the second block follows the first.
C21_Witness ==
  /\ last_call.B = HBF_SYSALLOC
  /\ last_call.HL = 256
  /\ regs.HL = 768
  /\ heap_ptr = 1024

\* C22: SYSALLOC(size) with heap_ptr + size > 0x8000 returns HL = 0, the
\* carry flag set and the no-memory code in A, and leaves heap_ptr as it was;
\* in the dispatcher and in the CLI front end.
C22_AllocNoMemory ==
  \A size \in HeapSizes :
    heap_ptr + size > 32768 =>
      LET d == handleSYS(AllocCall(Machine, size))
          c == handle_hbios_call_SYSALLOC(AllocCall(Machine, size))
      IN  /\ d.regs.HL = 0 /\ d.regs.CY /\ d.regs.A = HBR_NOMEM
          /\ d.heap_ptr = heap_ptr
          /\ c.regs.HL = 0 /\ c.regs.CY /\ c.regs.A = HBR_NOMEM
          /\ c.heap_ptr = heap_ptr

-----------------------------------------------------------------------------
(* Claims about write_bank, checked under SpecMem *)

\* The three ident ranges of the common bank, as physical RAM indices:
\* 0x7FE00..0x7FE02, 0x7FF00..0x7FF02, 0x7FFFC..0x7FFFD.
IdentPhys == (523776..523778) \cup (524032..524034) \cup (524284..524285)

\* Bank ids with bit 7 set that name a RAM bank the model tracks.
WriteBankIds == {128, 129, 130, 142, 143, 144, 159, 255}

\* C29: for every RAM bank id and every offset below 0x8000 whose physical
\* location is outside the three ident ranges, a byte written by write_bank
\* is the byte the next read_bank of that bank and offset returns.
C29_WriteBankTakesEffect ==
  \A bank_id \in WriteBankIds, offset \in MemOffsets, value \in {0, 85, 255} :
    LET phys == (bank_id % 16) * BANK_SIZE + offset IN
    phys \notin IdentPhys =>
      read_bank(write_bank(Mem, bank_id, offset, value), bank_id, offset) = value

-----------------------------------------------------------------------------
(* Claims about writes to a hard disk, checked under SpecDisk *)

\* The followed bytes of the block at addr in the guest's memory.
BufSector(m, buffer_bank, addr) ==
  [i \in 1..Len(SectorBytes) |-> read_from_bank(m, buffer_bank, U16(addr + SectorBytes[i]))]

\* C30: DIOWRITE to a hard disk returns in E the number of blocks stored on
\* the medium and advances current_lba by it: every block counted is, on the
\* medium, the block the guest's buffer held; a block whose host write failed
\* is not counted.
C30_WriteCountsStored ==
  \A count \in DkCounts :
    LET d == handleDIO(WithRegs(HBF_DIOWRITE, 2, 0, count, 32768))
        lba == disks[0].current_lba
    IN  disks[0].is_open =>
          /\ d.disks[0].current_lba = lba + d.regs.E
          /\ \A s \in 0..(d.regs.E - 1) :
               (lba + s) \in DOMAIN d.disks[0].data =>
                 d.disks[0].data[lba + s] = BufSector(Mem, 0, 32768 + s * 512)

-----------------------------------------------------------------------------
(* Claims about the console and the calls without a case, checked under
   SpecCon *)

\* A handler invocation for function code b has just come back to the
\* emulator: by the port, by a trap, by a trap at the same PC again, or out of
\* the sleep loop.
HandlerEnded(b) ==
  /\ last_op[1] \in {"port", "trap", "retry", "wake"}
  /\ last_op[2] = b
  /\ ~polling
  /\ ~halted

AtEntry(b, port) ==
  IF port THEN [Machine EXCEPT !.regs.B = b]
  ELSE [Machine EXCEPT !.regs.B = b, !.pc = main_entry]

Invoked(b, port) ==
  IF port THEN handlePortDispatch(AtEntry(b, port), MbrNone)
  ELSE handleCall(AtEntry(b, port), -2, MbrNone)

\* C24: whatever the input queue, the blocking policy and the dispatch mode,
\* VDAKRD leaves the same E, result code and waiting flag as CIOIN, and like
\* CIOIN it comes back or not, and leaves PC at the trap address or not.
C24_KrdSameAsCioIn ==
  (~halted /\ ~polling) =>
    \A port \in BOOLEAN :
      LET a == Invoked(HBF_CIOIN, port)
          b == Invoked(HBF_VDAKRD, port)
      IN  /\ a.regs.E = b.regs.E
          /\ a.regs.A = b.regs.A
          /\ a.waiting_for_input = b.waiting_for_input
          /\ a.polling = b.polling
          /\ (a.pc = main_entry) = (b.pc = main_entry)

\* C28: a call with a function code no handler has a case for comes back
\* with the no-function code in A, and the emulator goes on.
C28_NoCaseGivesNoFunction ==
  (last_op[1] \in {"port", "trap", "retry"} /\ last_op[2] \in NoCaseFuncs) =>
     /\ ~halted
     /\ regs.A = HBR_NOFUNC
     /\ PC # main_entry

-----------------------------------------------------------------------------
(* Claims about SYSBOOT, checked under SpecBoot *)

\* SYSBOOT has just been handled, by the port or by a trap, with the command
\* of last_op, and the emulator goes on.
Booted ==
  /\ last_op[1] \in {"port", "trap"}
  /\ last_op[2] = HBF_SYSBOOT
  /\ ~halted

BootCmd == SkipSpaces(ReadCmd(last_op[3], 0))

\* The sector slice s of a disk starts at, by the layout the probe finds.
SliceStart(dk, s) ==
  slice_lba(ProbeIfNeeded(dk, dk.mbr), s)[2]

\* Memory holds the payload of the system image that starts at sector base
\* of the disk, from its load address up to its end address.
LoadedFrom(dk, base) ==
  LET img == BootImageAt(dk, base) IN
  \A i \in 0..(img.end_addr - img.load_addr - 1) :
     fetch_mem(Mem, img.load_addr + i) = img.payload[i + 1]

\* C25: after a SYSBOOT that booted a disk (slice 0), by the port or by a
\* trap, PC is the entry address of the image's header, D is the unit booted
\* and E is 0.
C25_BootEntry ==
  (Booted /\ BootUnit(BootCmd).boot_slice = 0) =>
     LET unit == BootUnit(BootCmd).boot_unit IN
     /\ PC = BootImageAt(disks[unit], 0).entry_addr
     /\ regs.D = unit
     /\ regs.E = 0

\* C26: a SYSBOOT with an empty command does not end the emulator when a
\* memory disk is enabled, and what it loads is not the image of hard disk
\* 0; with no memory disk enabled it loads the image of hard disk 0.
C26_EmptyCommandPrefersMemDisk ==
  (last_op[1] \in {"port", "trap"} /\ last_op[2] = HBF_SYSBOOT /\ BootCmd = <<>>) =>
     IF \E i \in 0..1 : md_disks[i].is_enabled
     THEN ~halted /\ ~(disks[0].is_open /\ disks[0].boot # <<>> /\ LoadedFrom(disks[0], 0))
     ELSE ~halted => LoadedFrom(disks[0], 0)

\* C27: after SYSBOOT "HDn:s", memory holds the payload of the system image
\* at the start of slice s of hard disk n, and the entry address that a boot
\* through the port leaves in PC is the one of that image's header.
C27_BootsSlice ==
  (Booted /\ Len(BootCmd) >= 2 /\ ToUpper(BootCmd[1]) = 72 /\ ToUpper(BootCmd[2]) = 68) =>
     LET u == BootUnit(BootCmd)
         base == SliceStart(disks[u.boot_unit], u.boot_slice)
     IN  /\ LoadedFrom(disks[u.boot_unit], base)
         /\ last_op[1] = "port" => PC = BootImageAt(disks[u.boot_unit], base).entry_addr

-----------------------------------------------------------------------------
(* The waiting flag after a character was read, checked under SpecCon *)

\* C37: whenever a CIOIN or VDAKRD handler invocation has taken a character
\* off the input queue and come back with it, the waiting-for-input flag is
\* false afterwards, also when an earlier attempt had set it.
C37_ReadClearsWaiting ==
  \A b \in {HBF_CIOIN, HBF_VDAKRD} :
     (HandlerEnded(b) /\ last_op[3] # <<>> /\ con_in = Tail(last_op[3])) =>
        ~waiting_for_input

-----------------------------------------------------------------------------
(* The unit SYSBOOT hands to the booted system, checked under SpecBoot *)

\* C38: after a SYSBOOT that booted a hard disk, the unit number in D is one
\* that the DIO calls route (no memory disk first, then map_hd_unit) to the
\* hard disk the image was loaded from.
C38_BootUnitRoutesToBootDisk ==
  Booted =>
     LET unit == BootUnit(BootCmd).boot_unit IN
     /\ ~is_md_unit(regs.D, md_disks)
     /\ is_hd_unit(regs.D, disks)
     /\ map_hd_unit(regs.D) = unit

-----------------------------------------------------------------------------
(* The disk positions, checked under SpecDio *)

\* The positions of all disks of a machine.
Cursors(d) ==
  [md |-> [i \in DOMAIN d.md_disks |-> d.md_disks[i].current_lba],
   hd |-> [u \in DOMAIN d.disks |-> d.disks[u].current_lba]]

CursorFuncs == {HBF_DIORESET, HBF_DIOSEEK, HBF_DIOREAD, HBF_DIOWRITE}

\* Unit numbers at and around every limit of map_md_unit and map_hd_unit.
CursorUnits == {0, 1, 2, 3, 15, 16, 17, 18, 80, 127, 128, 129, 130, 143, 144,
                145, 158, 159, 160, 191, 192, 207, 208, 255}

\* C39: a DIORESET, DIOSEEK, DIOREAD or DIOWRITE on a unit number changes
\* the position of no disk but the one the unit resolves to, and a call on a
\* unit that resolves to no device changes no position.
C39_OnlyOwnCursorMoves ==
  (~halted /\ ~polling) =>
    \A unit \in CursorUnits : \A b \in CursorFuncs :
      \A r \in {handleDIO(WithRegs(b, unit, 0, 1, 32768))} :
        LET dev == RouteDevice(unit)
            old == Cursors(Machine)
            new == Cursors(r)
        IN  CASE dev[1] = "md" ->
                   /\ new.hd = old.hd
                   /\ \A i \in DOMAIN old.md : i # dev[2] => new.md[i] = old.md[i]
              [] dev[1] = "hd" ->
                   /\ new.md = old.md
                   /\ \A u \in DOMAIN old.hd : u # dev[2] => new.hd[u] = old.hd[u]
              [] OTHER -> new = old

\* A DIOREAD on unit 0x81 moved the position of the ROM disk, while the
\* position a DIOSEEK had given the RAM disk stayed.
C39_Witness ==
  /\ last_call.B = HBF_DIOREAD /\ last_call.C = 129
  /\ regs.A = 0
  /\ md_disks[1].current_lba > 0
  /\ md_disks[0].current_lba = 127

-----------------------------------------------------------------------------
(* EXTSLICE after the image of a slot was replaced, checked under SpecDisk *)

\* C32: when the image of slot 0 was replaced after EXTSLICE had probed the
\* slot, the next EXTSLICE reports the media id of the new image and the
\* LBA its partition base and slice size give, for slices 0 and 1.
C32_ReplacedImageProbedAgain ==
  (disks[0].is_open /\ disks[0].partition_probed /\ 0 \notin ext_seen) =>
    \A mbr \in ProbeChoices(2) : \A slice \in {0, 1} :
      \A r \in {handleEXT(WithRegs(HBF_EXTSLICE, 0, 2, slice, 0), mbr)} :
        LET want == Classify(mbr, disks[0].size)
        IN  /\ r.regs.C = want.media
            /\ <<r.regs.D * 256 + r.regs.E, r.regs.HL>> =
                 Sum32(want.base, slice * want.slice_size)

-----------------------------------------------------------------------------
(* The media id of the memory disks, checked under SpecDio *)

\* C36: for every unit number that resolves to an enabled memory disk,
\* EXTSLICE returns in C the media id DIOMEDIA returns in E: MDRAM (2) for
\* the RAM disk and MDROM (1) for the ROM disk.
C36_ExtSliceMediaAsDioMedia ==
  (~halted /\ ~polling) =>
    \A unit \in CursorUnits :
      is_md_unit(unit, md_disks) =>
        \A ex \in {handleEXT(WithRegs(HBF_EXTSLICE, 0, unit, 0, 0), MbrNone)} :
          \A dm \in {handleDIO(WithRegs(HBF_DIOMEDIA, unit, 0, 0, 0))} :
            /\ ex.regs.C = dm.regs.E
            /\ ex.regs.C = (IF md_disks[map_md_unit(unit)].is_rom THEN 1 ELSE 2)

-----------------------------------------------------------------------------
(* Open hard-disk slots without data, checked under SpecDio *)

\* C35: after any sequence of loadDisk, closeDisk and DIO calls, every open
\* hard-disk slot has a file handle or a vector that is not empty, and a
\* DIOREAD or DIOWRITE on a unit of an open slot does not end the emulator.
C35_OpenSlotHasData ==
  (~halted /\ ~polling) =>
    \A u \in DiskSlots :
      disks[u].is_open =>
        /\ ~HdNoData(disks[u])
        /\ \A b \in {HBF_DIOREAD, HBF_DIOWRITE} :
             ~handleDIO(WithRegs(b, 144 + u, 0, 1, 32768)).halted

-----------------------------------------------------------------------------
(* The RAM disk and SYSSETBNK, checked under SpecRt *)

\* A machine with the guest's registers loaded for the next call.
RegsOn(d, b, c, dd, e, hl) ==
  [d EXCEPT !.regs.B = b, !.regs.C = c, !.regs.D = dd, !.regs.E = e,
            !.regs.HL = hl, !.skip_ret = TRUE]

\* The banks the guest selects between the write and the read: the ROM, the
\* RAM banks 0x80..0x82, 0x8E and the common bank.
RtSetBnkIds == {0, 128, 129, 130, 142, 143}

\* The read buffer of the check, 0x8000 in the guest's view.
SetBnkRBuf == <<0, 32768>>

\* What DIOSEEK and DIOREAD into SetBnkRBuf give after the guest has
\* selected the banks of the sequence with SYSSETBNK.
RECURSIVE AfterSetBnk(_, _)
AfterSetBnk(d, banks) ==
  IF banks = <<>> THEN d
  ELSE AfterSetBnk(handleSYS(RegsOn(d, HBF_SYSSETBNK, Head(banks), 0, 0, 0)), Tail(banks))

ReadBackAfter(banks) ==
  LET d1 == AfterSetBnk(Machine, banks)
      d2 == handleDIO(RegsOn(d1, HBF_DIOSEEK, rt_data.unit,
                             rt_data.lba[1], rt_data.lba[2], rt_data.lba[3]))
      d3 == handleDIO(RegsOn(d2, HBF_DIOREAD, rt_data.unit,
                             SetBnkRBuf[1], rt_data.n, SetBnkRBuf[2]))
  IN  BufBytes(d3.mem, SetBnkRBuf, rt_data.n)

\* The sectors were written inside the disk, from a buffer outside it, and
\* neither they nor the read buffer hold a write-protected byte.
WrittenInside ==
  /\ rt_pc = 4
  /\ rt_data.n >= 1
  /\ RtLba + rt_data.n <= total_sectors(md_disks[0])
  /\ RtDiskPhys \cap ProtectedPhys = {}
  /\ BufPhys(SetBnkRBuf) \cap ProtectedPhys = {}
  /\ BufPhys(SetBnkRBuf) \cap RtDiskBanksPhys = {}
  /\ BufPhys(rt_data.wbuf) \cap RtDiskBanksPhys = {}

\* C33: the sectors written to the RAM disk with DIOWRITE read back
\* unchanged with DIOSEEK and DIOREAD after the guest has selected any one
\* or two banks with SYSSETBNK in between, a bank of the RAM disk included.
C33_SetBnkKeepsRamDisk ==
  WrittenInside =>
    /\ ReadBackAfter(<<>>) = rt_data.bytes
    /\ \A b1 \in RtSetBnkIds : ReadBackAfter(<<b1>>) = rt_data.bytes
    /\ \A b1, b2 \in RtSetBnkIds : ReadBackAfter(<<b1, b2>>) = rt_data.bytes

-----------------------------------------------------------------------------
(* The index of read_bank, checked under SpecSys *)

\* C40: a SYSPEEK of an address below 0x8000 reads, for whatever bank id is
\* in D, at an index inside the 512 KiB array read_bank takes the byte from.
C40_ReadBankInsideArray ==
  (last_call.B = HBF_SYSPEEK /\ last_call.HL < BANK_SIZE) =>
     bank_index(last_call.D, last_call.HL) < bank_array_size(last_call.D)

-----------------------------------------------------------------------------
(* Claims about the HCB that romwbw_start populates, checked under SpecHcb *)

\* The drives the HCB should name, <<unit, slice>>, in the order of their
\* letters: the enabled RAM disk, the enabled ROM disk, then four slices of
\* every open hard disk by ascending slot, the disk of slot hd being unit
\* hd + 2; sixteen at most.
DriveList ==
  LET md == SelectSeq(<<0, 1>>, LAMBDA i : md_disks[i].is_enabled)
      hd == SelectSeq(SlotSeq, LAMBDA u : disks[u].is_open)
      all == [k \in 1..Len(md) |-> <<md[k], 0>>]
               \o Concat([k \in 1..Len(hd) |-> [slice \in 1..4 |-> <<hd[k] + 2, slice - 1>>]], 1)
  IN  SubSeq(all, 1, IF Len(all) > 16 THEN 16 ELSE Len(all))

\* C31: right after populateDiskUnitTable, the DRVMAP of RAM bank 0x80 names
\* the drives of DriveList from letter A on, each byte with the slice in its
\* high and the unit of the disk in its low four bits, every further byte is
\* 0xFF, and DEVCNT is the number of drives named.
C31_DrvmapNamesDrives ==
  last_op[1] = "start" =>
     /\ \A k \in 1..16 :
          LET byte == read_bank(Mem, 128, DRVMAP_BASE + k - 1) IN
          IF k <= Len(DriveList)
          THEN byte \div 16 = DriveList[k][2] /\ byte % 16 = DriveList[k][1]
          ELSE byte = 255
     /\ read_bank(Mem, 128, CB_DEVCNT) = Len(DriveList)
     /\ Len(DriveList) <= 16

\* C34: once romwbw_start has populated the HCB, what the guest reads at the
\* DISKUT, DRVMAP and DEVCNT addresses with ROM bank 0 or RAM bank 0x80
\* selected is what populateDiskUnitTable wrote, before and after the
\* guest's SYSSETBNK calls.
C34_GuestReadsPopulatedHcb ==
  (Started /\ current_bank \in {0, 128}) =>
     \A addr \in HcbOffsets :
        fetch_mem(Mem, addr) = read_bank(populateDiskUnitTable(Machine).mem, 128, addr)

====
